---- MODULE Spec2Model ----
(***************************************************************************)
(* A model of the ntree traversal engine: the Node container, the          *)
(* Borrowed / Exclusive / Owned traversal handles, the sequential          *)
(* recursions and the concurrent fan-out built on join_all.                *)
(*                                                                         *)
(* A Node is a record [value, children]; children is a sequence of Nodes.  *)
(* A node of the traversed tree is identified by its path: the sequence of *)
(* child indices (1-based) leading to it from the root.                    *)
(***************************************************************************)
EXTENDS Integers, Sequences, FiniteSets, TLC

\* ------------------------------------------------------------------------
\* Bounds of the model
\* ------------------------------------------------------------------------
MaxNodes == 3
MaxValue == 2
MaxCalls == 2

\* i32::MAX, the limit of saturating_add in the visitors of the tests
I32Max == 2147483647

Values == 1..MaxValue

\* The value from which the closure of mutate_on_traversal adds no child.
GrowLimit == 3

\* ------------------------------------------------------------------------
\* Node
\* ------------------------------------------------------------------------
new(value) == [value |-> value, children |-> <<>>]

with_children(node, children) == [node EXCEPT !.children = children]

add_child(node, child) == [node EXCEPT !.children = Append(node.children, child)]

children_len(node) == Len(node.children)

\* (slip: the index of the new child returned instead of the count)
add_child_returned_index(node, child) == children_len(add_child(node, child)) - 1
\* What add_child returns: self.children.len(), read after the push.
add_child_returned(node, child) == children_len(add_child(node, child))

\* Option<T>
None == [some |-> FALSE]
Some(x) == [some |-> TRUE, value |-> x]
\* bool::then_some: its argument is an ordinary argument, evaluated by the
\* caller before then_some looks at the bool.
then_some(b, x) == IF b THEN Some(x) ELSE None

\* (slip: swap_remove, which fills the hole with the last element)
Vec_remove_swap(v, index) ==
    IF index >= Len(v) THEN [panic |-> TRUE, elem |-> 0, vec |-> v]
    ELSE LET last == Len(v)
             moved == [v EXCEPT ![index + 1] = v[last]]
         IN  [panic |-> FALSE, elem |-> v[index + 1], vec |-> SubSeq(moved, 1, last - 1)]
\* Vec::remove(index), index counted from 0: it panics when index is out of
\* bounds, and otherwise takes the element out and shifts the rest left.
Vec_remove(v, index) ==
    IF index >= Len(v) THEN [panic |-> TRUE, elem |-> 0, vec |-> v]
    ELSE [panic |-> FALSE, elem |-> v[index + 1],
          vec |-> SubSeq(v, 1, index) \o SubSeq(v, index + 2, Len(v))]

\* Node::remove_child:
\*   (index < self.children.len()).then_some(self.children.remove(index))
\* self.children.remove(index) runs first, whatever the comparison gives.
remove_child(node, index) ==
    LET in_range == index < Len(node.children)
        removed == Vec_remove(node.children, index)
    IN  IF removed.panic
        THEN [panic |-> TRUE, node |-> node, ret |-> None]
        ELSE [panic |-> FALSE,
              node |-> [node EXCEPT !.children = removed.vec],
              ret |-> then_some(in_range, removed.elem)]

\* node!(10, node!(20, node!(40)), node!(30, node!(50)))
TestTree ==
    add_child(add_child(new(10), add_child(new(20), new(40))),
              add_child(new(30), new(50)))

RECURSIVE SumSeq(_)
SumSeq(s) == IF s = <<>> THEN 0 ELSE Head(s) + SumSeq(Tail(s))

saturating_add(a, b) == IF a + b > I32Max THEN I32Max ELSE a + b

RECURSIVE size(_)
\* (slip: the fold left out, only the direct children counted)
size_direct(node) == Len(node.children)
size(node) ==
    LET sizes == [i \in 1..Len(node.children) |-> size(node.children[i])]
    IN  saturating_add(Len(node.children), SumSeq(sizes))

RECURSIVE MaxOf(_)
MaxOf(s) ==
    IF s = <<>> THEN 0
    ELSE LET m == MaxOf(Tail(s)) IN IF Head(s) > m THEN Head(s) ELSE m

RECURSIVE height(_)
\* (slip: a childless node counted as height 0, the branch measured in edges)
height_edges(node) ==
    IF node.children = <<>> THEN 0
    ELSE saturating_add(
             MaxOf([i \in 1..Len(node.children) |-> height(node.children[i])]), 1)
\* Node::height: children.map(height).max().unwrap_or_default() + 1
height(node) ==
    saturating_add(
        MaxOf([i \in 1..Len(node.children) |-> height(node.children[i])]), 1)

\* node!(10, node!(20, node!(40)), node!(30, node!(50), node!(60)))
SizeTree ==
    add_child(add_child(new(10), add_child(new(20), new(40))),
              add_child(add_child(new(30), new(50)), new(60)))

\* All the trees of exactly n nodes with values in Values, and all the
\* sequences of trees (child lists) of n nodes in total.
RECURSIVE TreesOf(_), ForestsOf(_)
TreesOf(n) ==
    IF n < 1 THEN {}
    ELSE { with_children(new(v), f) : v \in Values, f \in ForestsOf(n - 1) }
ForestsOf(n) ==
    IF n = 0 THEN { <<>> }
    ELSE UNION { { <<t>> \o f : t \in TreesOf(k), f \in ForestsOf(n - k) }
                 : k \in 1..n }

\* init_tree of the older crate's tests: 0[1, 2[3]]
InitTree ==
    add_child(add_child(new(0), new(1)), add_child(new(2), new(3)))

Trees == UNION { TreesOf(n) : n \in 1..MaxNodes } \cup { TestTree, InitTree }

\* The paths of the nodes of a tree.
RECURSIVE Paths(_)
Paths(node) ==
    { <<>> } \cup
    UNION { { <<i>> \o p : p \in Paths(node.children[i]) }
            : i \in 1..Len(node.children) }

RECURSIVE NodeAt(_, _)
NodeAt(node, path) ==
    IF path = <<>> THEN node ELSE NodeAt(node.children[Head(path)], Tail(path))

\* The tree once the visitor has returned from the node at path: a visitor
\* holding &mut Node<T> leaves behind whatever it made of that node.
RECURSIVE SetNodeAt(_, _, _)
SetNodeAt(node, path, n) ==
    IF path = <<>> THEN n
    ELSE [node EXCEPT !.children[Head(path)] =
              SetNodeAt(node.children[Head(path)], Tail(path), n)]

\* ------------------------------------------------------------------------
\* Handles and visitors
\* ------------------------------------------------------------------------
\* The macros are instantiated with (&Node<T>, iter) for Traverse and with
\* (&mut Node<T>, iter_mut) for TraverseMut: only the latter hands the
\* visitor a node it can write to.
\* (slip: a shared handle instantiated with the exclusive reference)
Writable_any(h) == TRUE
Writable(h) == h = "Exclusive"

\* (slip: the value written through a shared reference)
Store_any(h, node, v) == [node EXCEPT !.value = v]
\* What a visitor leaves in the node it was given.
Store(h, node, v) == IF Writable(h) THEN [node EXCEPT !.value = v] ELSE node

\* The recording closures of the for_each / preorder / postorder tests:
\*   Borrowed   |n| result.push(n.value)
\*   Exclusive  |n| { n.value = n.value.saturating_add(1); result.push(n.value) }
for_each_f(h, node, path) ==
    LET n == Store(h, node, saturating_add(node.value, 1))
    IN  [node |-> n, entry |-> [path |-> path, value |-> n.value]]

\* ------------------------------------------------------------------------
\* Sequential for-each
\* ------------------------------------------------------------------------
\* Traverse::postorder / TraverseMut::postorder: the children, then the node.
RECURSIVE postorder_immersion(_, _, _, _), postorder_children(_, _, _, _, _)
postorder_children(h, children, path, i, log) ==
    IF i > Len(children) THEN [children |-> children, log |-> log]
    ELSE LET r == postorder_immersion(h, children[i], path \o <<i>>, log)
         IN  postorder_children(h, [children EXCEPT ![i] = r.node], path, i + 1, r.log)
postorder_immersion(h, root, path, log) ==
    LET c == postorder_children(h, root.children, path, 1, log)
        v == for_each_f(h, [root EXCEPT !.children = c.children], path)
    IN  [node |-> v.node, log |-> Append(c.log, v.entry)]

\* Traverse::preorder / TraverseMut::preorder: the node, then its children.
RECURSIVE preorder_immersion(_, _, _, _), preorder_children(_, _, _, _, _)
\* (slip: the visitor called after the children loop)
preorder_immersion_late(h, root, path, log) == postorder_immersion(h, root, path, log)
preorder_children(h, children, path, i, log) ==
    IF i > Len(children) THEN [children |-> children, log |-> log]
    ELSE LET r == preorder_immersion(h, children[i], path \o <<i>>, log)
         IN  preorder_children(h, [children EXCEPT ![i] = r.node], path, i + 1, r.log)
preorder_immersion(h, root, path, log) ==
    LET v == for_each_f(h, root, path)
        c == preorder_children(h, v.node.children, path, 1, Append(log, v.entry))
    IN  [node |-> [v.node EXCEPT !.children = c.children], log |-> c.log]

\* macros::for_each: children first, in index order, then the node itself.
RECURSIVE for_each_immersion(_, _, _, _), for_each_children(_, _, _, _, _)
\* (slip: the children loop left out)
for_each_immersion_shallow(h, root, path, log) ==
    LET v == for_each_f(h, root, path)
    IN  [node |-> v.node, log |-> Append(log, v.entry)]
\* (slip: the visitor called before the children loop)
for_each_immersion_early(h, root, path, log) == preorder_immersion(h, root, path, log)
for_each_children(h, children, path, i, log) ==
    IF i > Len(children) THEN [children |-> children, log |-> log]
    ELSE LET r == for_each_immersion(h, children[i], path \o <<i>>, log)
         IN  for_each_children(h, [children EXCEPT ![i] = r.node], path, i + 1, r.log)
for_each_immersion(h, root, path, log) ==
    LET c == for_each_children(h, root.children, path, 1, log)
        v == for_each_f(h, [root EXCEPT !.children = c.children], path)
    IN  [node |-> v.node, log |-> Append(c.log, v.entry)]

\* TraverseOwned::for_each: the node is consumed, the visitor gets the value.
RECURSIVE owned_for_each_immersion(_, _, _), owned_for_each_children(_, _, _, _)
owned_for_each_children(children, path, i, log) ==
    IF i > Len(children) THEN log
    ELSE owned_for_each_children(children, path, i + 1,
             owned_for_each_immersion(children[i], path \o <<i>>, log))
owned_for_each_immersion(root, path, log) ==
    Append(owned_for_each_children(root.children, path, 1, log),
           [path |-> path, value |-> root.value])

\* ------------------------------------------------------------------------
\* Sequential map
\* ------------------------------------------------------------------------
Even(v) == IF v % 2 = 0 THEN 1 ELSE 0
Odd(v) == IF v % 2 # 0 THEN 1 ELSE 0

\* The map closures: "even" is |n| n.value % 2 == 0 (with n.value += 1 first
\* on an Exclusive handle, as in the tests), "copy" returns the value and
\* "len" is |n| n.value + n.children_len().
MapVisitors == { "len", "even", "copy" }
map_f(h, f, node, path) ==
    LET n == Store(h, node, saturating_add(node.value, 1))
        ret == IF f = "len" THEN n.value + children_len(n)
               ELSE IF f = "even" THEN Even(n.value) ELSE n.value
    IN  [node |-> n, ret |-> ret,
         entry |-> [path |-> path, value |-> n.value, ret |-> ret]]

\* macros::map: Node::new(f(root)).with_children(children mapped in order)
RECURSIVE map_immersion(_, _, _, _, _), map_children(_, _, _, _, _, _, _)
map_children(h, f, children, path, i, outs, log) ==
    IF i > Len(children) THEN [children |-> children, outs |-> outs, log |-> log]
    ELSE LET r == map_immersion(h, f, children[i], path \o <<i>>, log)
         IN  map_children(h, f, [children EXCEPT ![i] = r.node], path, i + 1,
                          Append(outs, r.out), r.log)
map_immersion(h, f, root, path, log) ==
    LET v == map_f(h, f, root, path)
        c == map_children(h, f, v.node.children, path, 1, <<>>, Append(log, v.entry))
    IN  [node |-> [v.node EXCEPT !.children = c.children],
         out |-> with_children(new(v.ret), c.outs),
         log |-> c.log]

\* The closures of TraverseOwned::map get the value and the original
\* children: "len" is |value, children| value + children.len().
OwnedMapVisitors == { "len", "even", "copy" }
owned_map_f(f, value, children) ==
    IF f = "len" THEN value + Len(children)
    ELSE IF f = "even" THEN Even(value) ELSE value

\* TraverseOwned::map
RECURSIVE owned_map_immersion(_, _, _, _), owned_map_children(_, _, _, _, _, _)
\* (slip: the closure handed the children after they were moved out)
owned_map_immersion_drained(f, root, path, log) ==
    LET ret == owned_map_f(f, root.value, <<>>)
        c == owned_map_children(f, root.children, path, 1, <<>>,
                 Append(log, [path |-> path, value |-> root.value, ret |-> ret]))
    IN  [out |-> with_children(new(ret), c.outs), log |-> c.log]
owned_map_children(f, children, path, i, outs, log) ==
    IF i > Len(children) THEN [outs |-> outs, log |-> log]
    ELSE LET r == owned_map_immersion(f, children[i], path \o <<i>>, log)
         IN  owned_map_children(f, children, path, i + 1, Append(outs, r.out), r.log)
owned_map_immersion(f, root, path, log) ==
    LET ret == owned_map_f(f, root.value, root.children)
        c == owned_map_children(f, root.children, path, 1, <<>>,
                 Append(log, [path |-> path, value |-> root.value, ret |-> ret]))
    IN  [out |-> with_children(new(ret), c.outs), log |-> c.log]

\* ------------------------------------------------------------------------
\* Sequential reduce
\* ------------------------------------------------------------------------
RECURSIVE Weighted(_, _)
Weighted(s, i) == IF i > Len(s) THEN 0 ELSE i * s[i] + Weighted(s, i + 1)

\* The reduce closures: "sum" is |n, results| n.value + results.iter().sum(),
\* "weighted" weighs each child result by its position in the list.
ReduceVisitors == { "sum", "weighted" }
\* A closure over &mut Node<T> can also call the node's public methods:
\* "grow" is |n, results| { n.add_child(Node::new(0)); n.value + sum }.
ExclusiveReduceVisitors == ReduceVisitors \cup { "grow" }
ReduceVisitorsOf(h) ==
    IF h = "Exclusive" THEN ExclusiveReduceVisitors ELSE ReduceVisitors
Combine(f, value, results) ==
    IF f = "weighted" THEN value + Weighted(results, 1) ELSE value + SumSeq(results)
reduce_f(h, f, node, results, path) ==
    LET stored == Store(h, node, saturating_add(node.value, 1))
        n == IF f = "grow" THEN add_child(stored, new(0)) ELSE stored
        ret == Combine(f, n.value, results)
    IN  [node |-> n, ret |-> ret,
         entry |-> [path |-> path, value |-> n.value, results |-> results, ret |-> ret]]

\* macros::reduce: the children's results, collected in order, then f.
RECURSIVE reduce_immersion(_, _, _, _, _), reduce_children(_, _, _, _, _, _, _)
\* (slip: the children moved out of the node by the loop)
reduce_immersion_drained(h, f, root, path, log) ==
    LET c == reduce_children(h, f, root.children, path, 1, <<>>, log)
        v == reduce_f(h, f, [root EXCEPT !.children = <<>>], c.results, path)
    IN  [node |-> v.node, ret |-> v.ret, log |-> Append(c.log, v.entry)]
\* (slip: the children's results collected back to front)
reduce_immersion_rev(h, f, root, path, log) ==
    LET c == reduce_children(h, f, root.children, path, 1, <<>>, log)
        rev == [i \in 1..Len(c.results) |-> c.results[Len(c.results) + 1 - i]]
        v == reduce_f(h, f, [root EXCEPT !.children = c.children], rev, path)
    IN  [node |-> v.node, ret |-> v.ret, log |-> Append(c.log, v.entry)]
reduce_children(h, f, children, path, i, results, log) ==
    IF i > Len(children)
    THEN [children |-> children, results |-> results, log |-> log]
    ELSE LET r == reduce_immersion(h, f, children[i], path \o <<i>>, log)
         IN  reduce_children(h, f, [children EXCEPT ![i] = r.node], path, i + 1,
                             Append(results, r.ret), r.log)
reduce_immersion(h, f, root, path, log) ==
    LET c == reduce_children(h, f, root.children, path, 1, <<>>, log)
        v == reduce_f(h, f, [root EXCEPT !.children = c.children], c.results, path)
    IN  [node |-> v.node, ret |-> v.ret, log |-> Append(c.log, v.entry)]

\* TraverseOwned::reduce
RECURSIVE owned_reduce_immersion(_, _, _, _), owned_reduce_children(_, _, _, _, _, _)
owned_reduce_children(f, children, path, i, results, log) ==
    IF i > Len(children) THEN [results |-> results, log |-> log]
    ELSE LET r == owned_reduce_immersion(f, children[i], path \o <<i>>, log)
         IN  owned_reduce_children(f, children, path, i + 1,
                                   Append(results, r.ret), r.log)
owned_reduce_immersion(f, root, path, log) ==
    LET c == owned_reduce_children(f, root.children, path, 1, <<>>, log)
        ret == Combine(f, root.value, c.results)
    IN  [ret |-> ret,
         log |-> Append(c.log, [path |-> path, value |-> root.value,
                                results |-> c.results, ret |-> ret])]

\* ------------------------------------------------------------------------
\* Sequential cascade
\* ------------------------------------------------------------------------
\* The cascade closure of the tests:
\*   |n, parent| { let next = n.value + parent; n.value = *parent; next }
\* (without the assignment on a Borrowed handle).
cascade_f(h, node, base, path) ==
    LET next == node.value + base
    IN  [node |-> Store(h, node, base), ret |-> next,
         entry |-> [path |-> path, value |-> node.value, base |-> base, ret |-> next]]

\* macros::cascade: f on the node, then each child with f's result as base.
RECURSIVE cascade_immersion(_, _, _, _, _), cascade_children(_, _, _, _, _, _)
\* (slip: the children get the base the node was called with)
cascade_immersion_same_base(h, root, base, path, log) ==
    LET v == cascade_f(h, root, base, path)
        c == cascade_children(h, v.node.children, base, path, 1, Append(log, v.entry))
    IN  [node |-> [v.node EXCEPT !.children = c.children], log |-> c.log]
\* (slip: the children get the value the node stores after the call)
cascade_immersion_stored(h, root, base, path, log) ==
    LET v == cascade_f(h, root, base, path)
        c == cascade_children(h, v.node.children, v.node.value, path, 1,
                              Append(log, v.entry))
    IN  [node |-> [v.node EXCEPT !.children = c.children], log |-> c.log]
cascade_children(h, children, base, path, i, log) ==
    IF i > Len(children) THEN [children |-> children, log |-> log]
    ELSE LET r == cascade_immersion(h, children[i], base, path \o <<i>>, log)
         IN  cascade_children(h, [children EXCEPT ![i] = r.node], base, path,
                              i + 1, r.log)
cascade_immersion(h, root, base, path, log) ==
    LET v == cascade_f(h, root, base, path)
        c == cascade_children(h, v.node.children, v.ret, path, 1, Append(log, v.entry))
    IN  [node |-> [v.node EXCEPT !.children = c.children], log |-> c.log]

\* ------------------------------------------------------------------------
\* The pre() / post() / with_pre() variants
\* ------------------------------------------------------------------------
\* The closure of the map_pre tests: |child, parent| *parent && child.value % 2 != 0
\* (an Exclusive closure increments the value and tests the new one for even).
map_pre_f(h, node, base, path) ==
    LET n == Store(h, node, saturating_add(node.value, 1))
        ret == base * Odd(node.value)
    IN  [node |-> n, ret |-> ret,
         entry |-> [path |-> path, value |-> n.value, base |-> base, ret |-> ret]]

\* macros::map_pre
RECURSIVE map_pre_immersion(_, _, _, _, _), map_pre_children(_, _, _, _, _, _, _)
map_pre_children(h, children, base, path, i, outs, log) ==
    IF i > Len(children) THEN [children |-> children, outs |-> outs, log |-> log]
    ELSE LET r == map_pre_immersion(h, children[i], base, path \o <<i>>, log)
         IN  map_pre_children(h, [children EXCEPT ![i] = r.node], base, path, i + 1,
                              Append(outs, r.out), r.log)
\* (slip: every node handed the caller's base instead of its parent's result)
map_pre_immersion_same_base(h, root, base, path, log) ==
    LET v == map_pre_f(h, root, base, path)
        parent == new(v.ret)
        c == map_pre_children(h, v.node.children, base, path, 1, <<>>,
                              Append(log, v.entry))
    IN  [node |-> [v.node EXCEPT !.children = c.children],
         out |-> with_children(parent, c.outs),
         log |-> c.log]
map_pre_immersion(h, root, base, path, log) ==
    LET v == map_pre_f(h, root, base, path)
        parent == new(v.ret)
        c == map_pre_children(h, v.node.children, parent.value, path, 1, <<>>,
                              Append(log, v.entry))
    IN  [node |-> [v.node EXCEPT !.children = c.children],
         out |-> with_children(parent, c.outs),
         log |-> c.log]

\* InPreOwned::map
RECURSIVE owned_map_pre_immersion(_, _, _, _), owned_map_pre_children(_, _, _, _, _, _)
owned_map_pre_children(children, base, path, i, outs, log) ==
    IF i > Len(children) THEN [outs |-> outs, log |-> log]
    ELSE LET r == owned_map_pre_immersion(children[i], base, path \o <<i>>, log)
         IN  owned_map_pre_children(children, base, path, i + 1,
                                    Append(outs, r.out), r.log)
owned_map_pre_immersion(root, base, path, log) ==
    LET parent == new(base * Odd(root.value))
        c == owned_map_pre_children(root.children, parent.value, path, 1, <<>>,
                 Append(log, [path |-> path, value |-> root.value, base |-> base,
                              ret |-> parent.value]))
    IN  [out |-> with_children(parent, c.outs), log |-> c.log]

\* The closures handed to the post-order map get the already built output
\* children as &mut Vec<Node<R>>: "odd" is |current, _| current.value % 2 != 0
\* and leaves the list alone, "clear" also empties the list it was handed.
MapPostVisitors == { "odd", "clear" }
map_post_f(h, f, node, children, path) ==
    LET n == Store(h, node, saturating_add(node.value, 1))
        ret == Odd(node.value)
    IN  [node |-> n, ret |-> ret,
         children |-> IF f = "clear" THEN <<>> ELSE children,
         entry |-> [path |-> path, value |-> n.value, children |-> children,
                    ret |-> ret]]

\* macros::map_post
RECURSIVE map_post_immersion(_, _, _, _, _), map_post_children(_, _, _, _, _, _, _)
map_post_children(h, f, children, path, i, outs, log) ==
    IF i > Len(children) THEN [children |-> children, outs |-> outs, log |-> log]
    ELSE LET r == map_post_immersion(h, f, children[i], path \o <<i>>, log)
         IN  map_post_children(h, f, [children EXCEPT ![i] = r.node], path, i + 1,
                               Append(outs, r.out), r.log)
\* (slip: the visitor handed an empty list instead of the mapped children)
map_post_immersion_unfed(h, f, root, path, log) ==
    LET c == map_post_children(h, f, root.children, path, 1, <<>>, log)
        v == map_post_f(h, f, [root EXCEPT !.children = c.children], <<>>, path)
    IN  [node |-> v.node,
         out |-> with_children(new(v.ret), c.outs),
         log |-> Append(c.log, v.entry)]
map_post_immersion(h, f, root, path, log) ==
    LET c == map_post_children(h, f, root.children, path, 1, <<>>, log)
        v == map_post_f(h, f, [root EXCEPT !.children = c.children], c.outs, path)
    IN  [node |-> v.node,
         out |-> with_children(new(v.ret), v.children),
         log |-> Append(c.log, v.entry)]

\* InPostOwned::map: the closure gets the value and the output children as a
\* shared slice, &[Node<R>].
RECURSIVE owned_map_post_immersion(_, _, _), owned_map_post_children(_, _, _, _, _)
owned_map_post_children(children, path, i, outs, log) ==
    IF i > Len(children) THEN [outs |-> outs, log |-> log]
    ELSE LET r == owned_map_post_immersion(children[i], path \o <<i>>, log)
         IN  owned_map_post_children(children, path, i + 1, Append(outs, r.out), r.log)
owned_map_post_immersion(root, path, log) ==
    LET c == owned_map_post_children(root.children, path, 1, <<>>, log)
        ret == Odd(root.value)
    IN  [out |-> with_children(new(ret), c.outs),
         log |-> Append(c.log, [path |-> path, value |-> root.value,
                                children |-> c.outs, ret |-> ret])]

\* The closures of the with_pre tests:
\*   pre   |current, base| current.value + base
\*   post  |current, base, children| current.value + children.len() + base   (reduce)
\*   post  |current, base, _| current.value % 2 != 0 && base % 2 == 0        (map)
\* An Exclusive closure increments current.value first.
pre_f(h, node, base, path) ==
    LET n == Store(h, node, saturating_add(node.value, 1))
        ret == n.value + base
    IN  [node |-> n, ret |-> ret,
         entry |-> [kind |-> "pre", path |-> path, value |-> n.value,
                    base |-> base, ret |-> ret]]
reduce_post_f(h, node, base, results, path) ==
    LET n == Store(h, node, saturating_add(node.value, 1))
        ret == n.value + Len(results) + base
    IN  [node |-> n, ret |-> ret,
         entry |-> [kind |-> "post", path |-> path, value |-> n.value,
                    base |-> base, results |-> results, ret |-> ret]]
map_pre_post_f(h, f, node, base, children, path) ==
    LET n == Store(h, node, saturating_add(node.value, 1))
        ret == Odd(n.value) * Even(base)
    IN  [node |-> n, ret |-> ret,
         children |-> IF f = "clear" THEN <<>> ELSE children,
         entry |-> [kind |-> "post", path |-> path, value |-> n.value,
                    base |-> base, children |-> children, ret |-> ret]]

\* macros::reduce_pre_post
RECURSIVE reduce_pre_post_immersion(_, _, _, _, _)
RECURSIVE reduce_pre_post_children(_, _, _, _, _, _, _)
reduce_pre_post_children(h, children, base, path, i, results, log) ==
    IF i > Len(children)
    THEN [children |-> children, results |-> results, log |-> log]
    ELSE LET r == reduce_pre_post_immersion(h, children[i], base, path \o <<i>>, log)
         IN  reduce_pre_post_children(h, [children EXCEPT ![i] = r.node], base, path,
                                      i + 1, Append(results, r.ret), r.log)
\* (slip: post handed the base the node received, not the node's own pre result)
reduce_pre_post_immersion_outer_base(h, root, base, path, log) ==
    LET b == pre_f(h, root, base, path)
        c == reduce_pre_post_children(h, b.node.children, b.ret, path, 1, <<>>,
                                      Append(log, b.entry))
        v == reduce_post_f(h, [b.node EXCEPT !.children = c.children], base,
                           c.results, path)
    IN  [node |-> v.node, ret |-> v.ret, log |-> Append(c.log, v.entry)]
reduce_pre_post_immersion(h, root, base, path, log) ==
    LET b == pre_f(h, root, base, path)
        c == reduce_pre_post_children(h, b.node.children, b.ret, path, 1, <<>>,
                                      Append(log, b.entry))
        v == reduce_post_f(h, [b.node EXCEPT !.children = c.children], b.ret,
                           c.results, path)
    IN  [node |-> v.node, ret |-> v.ret, log |-> Append(c.log, v.entry)]

\* PrePostOwned::reduce: pre gets &mut Node<T>, post the value, the base and
\* the results of the children; the closures of the test are
\*   pre   |current, base| current.value + *base
\*   post  |_, base, children| children.len() + base
RECURSIVE owned_reduce_pre_post_immersion(_, _, _, _)
RECURSIVE owned_reduce_pre_post_children(_, _, _, _, _, _)
owned_reduce_pre_post_children(children, base, path, i, results, log) ==
    IF i > Len(children) THEN [results |-> results, log |-> log]
    ELSE LET r == owned_reduce_pre_post_immersion(children[i], base, path \o <<i>>, log)
         IN  owned_reduce_pre_post_children(children, base, path, i + 1,
                                            Append(results, r.ret), r.log)
owned_reduce_pre_post_immersion(root, base, path, log) ==
    LET b == root.value + base
        c == owned_reduce_pre_post_children(root.children, b, path, 1, <<>>,
                 Append(log, [kind |-> "pre", path |-> path, value |-> root.value,
                              base |-> base, ret |-> b]))
        ret == Len(c.results) + b
    IN  [ret |-> ret,
         log |-> Append(c.log, [kind |-> "post", path |-> path, value |-> root.value,
                                base |-> b, results |-> c.results, ret |-> ret])]

\* macros::map_pre_post
RECURSIVE map_pre_post_immersion(_, _, _, _, _, _)
RECURSIVE map_pre_post_children(_, _, _, _, _, _, _, _)
map_pre_post_children(h, f, children, base, path, i, outs, log) ==
    IF i > Len(children) THEN [children |-> children, outs |-> outs, log |-> log]
    ELSE LET r == map_pre_post_immersion(h, f, children[i], base, path \o <<i>>, log)
         IN  map_pre_post_children(h, f, [children EXCEPT ![i] = r.node], base, path,
                                   i + 1, Append(outs, r.out), r.log)
map_pre_post_immersion(h, f, root, base, path, log) ==
    LET b == pre_f(h, root, base, path)
        c == map_pre_post_children(h, f, b.node.children, b.ret, path, 1, <<>>,
                                   Append(log, b.entry))
        v == map_pre_post_f(h, f, [b.node EXCEPT !.children = c.children], b.ret,
                            c.outs, path)
    IN  [node |-> v.node,
         out |-> with_children(new(v.ret), v.children),
         log |-> Append(c.log, v.entry)]

\* PrePostOwned::map: pre gets &mut Node<T>, post the value, the base and the
\* output children as a shared slice; the closures of the tests are
\*   pre   |current, base| current.value + *base
\*   post  |_, base, _| base % 2 == 0
RECURSIVE owned_map_pre_post_immersion(_, _, _, _)
RECURSIVE owned_map_pre_post_children(_, _, _, _, _, _)
owned_map_pre_post_children(children, base, path, i, outs, log) ==
    IF i > Len(children) THEN [outs |-> outs, log |-> log]
    ELSE LET r == owned_map_pre_post_immersion(children[i], base, path \o <<i>>, log)
         IN  owned_map_pre_post_children(children, base, path, i + 1,
                                         Append(outs, r.out), r.log)
owned_map_pre_post_immersion(root, base, path, log) ==
    LET b == root.value + base
        c == owned_map_pre_post_children(root.children, b, path, 1, <<>>,
                 Append(log, [kind |-> "pre", path |-> path, value |-> root.value,
                              base |-> base, ret |-> b]))
        ret == Even(b)
    IN  [out |-> with_children(new(ret), c.outs),
         log |-> Append(c.log, [kind |-> "post", path |-> path, value |-> root.value,
                                base |-> b, children |-> c.outs, ret |-> ret])]

\* ------------------------------------------------------------------------
\* The older crate: reduce and reduce_mut of Node
\* ------------------------------------------------------------------------
RECURSIVE Flatten(_)
Flatten(ss) == IF ss = <<>> THEN <<>> ELSE Head(ss) \o Flatten(Tail(ss))

\* pre_order of the tests: the value of the parent, then the lists of the children
pre_order(parent, children) == <<parent.value>> \o Flatten(children)

\* Node::reduce called with pre_order
RECURSIVE reduce_pre_order(_)
reduce_pre_order(node) ==
    pre_order(node, [i \in 1..Len(node.children) |->
                        reduce_pre_order(node.children[i])])

RECURSIVE FoldSaturating(_, _)
FoldSaturating(acc, s) ==
    IF s = <<>> THEN acc ELSE FoldSaturating(saturating_add(acc, Head(s)), Tail(s))

\* mutate_tree of the tests: sum = value + 1 + results of the children; a new
\* child Node::new(sum) is appended to the parent when sum is even.
mutate_tree(parent, children, path) ==
    LET sum == FoldSaturating(saturating_add(parent.value, 1), children)
        n == IF sum % 2 = 0 THEN add_child(parent, new(sum)) ELSE parent
    IN  [node |-> n, ret |-> sum,
         entry |-> [path |-> path, value |-> parent.value, results |-> children,
                    ret |-> sum]]

\* Node::reduce_mut: children_mut().iter_mut().map(reduce_mut), then f(self, results)
RECURSIVE reduce_mut(_, _, _), reduce_mut_children(_, _, _, _, _)
reduce_mut_children(children, path, i, results, log) ==
    IF i > Len(children)
    THEN [children |-> children, results |-> results, log |-> log]
    ELSE LET r == reduce_mut(children[i], path \o <<i>>, log)
         IN  reduce_mut_children([children EXCEPT ![i] = r.node], path, i + 1,
                                 Append(results, r.ret), r.log)
\* (slip: the visitor works on a clone of the node, what it appends is lost)
reduce_mut_on_clone(root, path, log) ==
    LET c == reduce_mut_children(root.children, path, 1, <<>>, log)
        v == mutate_tree([root EXCEPT !.children = c.children], c.results, path)
    IN  [node |-> [root EXCEPT !.children = c.children], ret |-> v.ret,
         log |-> Append(c.log, v.entry)]
reduce_mut(root, path, log) ==
    LET c == reduce_mut_children(root.children, path, 1, <<>>, log)
        v == mutate_tree([root EXCEPT !.children = c.children], c.results, path)
    IN  [node |-> v.node, ret |-> v.ret, log |-> Append(c.log, v.entry)]

\* ------------------------------------------------------------------------
\* The Order policies and the loop they drive
\* ------------------------------------------------------------------------
Orders == { "Preorder", "Postorder" }

\* (slip: the node evaluated at every iteration)
evaluate_self_always(O, node, it) == TRUE
\* Order::evaluate_self of Preorder and of Postorder
evaluate_self(O, node, it) ==
    IF O = "Preorder" THEN it = 0 ELSE it = Len(node.children)

\* Order::continue_with of Preorder and of Postorder
continue_with(O, node, it) == Some(it)

\* The closure handed to WithOrder::map, F: FnMut(&Node<T>, &[Node<R>]) -> R
order_f(node, children) == saturating_add(node.value, Len(children))

OrderEntry(kind, path, it, index, children, ret) ==
    [kind |-> kind, path |-> path, it |-> it, index |-> index,
     handed |-> Len(children), ret |-> ret]

\* map_immersion of WithOrder::map: `for it in 0..=root.children.len()`,
\* with indices counted from 0 as the code counts them.
RECURSIVE order_map_immersion(_, _, _, _), order_loop(_, _, _, _, _, _, _)
order_loop(O, root, path, it, value, children, log) ==
    IF it > Len(root.children)
    THEN [value |-> value, children |-> children, log |-> log]
    ELSE LET ev == evaluate_self(O, root, it)
             ret == order_f(root, children)
             value1 == IF ev THEN Some(ret) ELSE value
             log1 == IF ev
                     THEN Append(log, OrderEntry("evaluate", path, it, it, children, ret))
                     ELSE log
             next == continue_with(O, root, it)
         IN  IF ~next.some
             THEN order_loop(O, root, path, it + 1, value1, children, log1)
             ELSE IF next.value >= Len(root.children)
             THEN [value |-> value1, children |-> children,
                   log |-> Append(log1, OrderEntry("break", path, it, next.value,
                                                   children, 0))]
             ELSE LET r == order_map_immersion(O, root.children[next.value + 1],
                               path \o <<next.value + 1>>,
                               Append(log1, OrderEntry("descend", path, it,
                                                       next.value, children, 0)))
                  IN  order_loop(O, root, path, it + 1, value1,
                                 Append(children, r.out), r.log)
order_map_immersion(O, root, path, log) ==
    LET l == order_loop(O, root, path, 0, None, <<>>, log)
        ret == order_f(root, l.children)
    IN  IF l.value.some
        THEN [out |-> with_children(new(l.value.value), l.children), log |-> l.log]
        ELSE [out |-> with_children(new(ret), l.children),
              log |-> Append(l.log, OrderEntry("fallback", path,
                                               Len(root.children) + 1,
                                               Len(root.children) + 1,
                                               l.children, ret))]

\* ------------------------------------------------------------------------
\* The iterators
\* ------------------------------------------------------------------------
\* The tree of test_pre_order_traversal and test_post_order_traversal:
\* node!(10, node!(20, node!(40), node!(50), node!(60)), node!(30, node!(70), node!(80)))
WideTree ==
    add_child(
        add_child(new(10),
            add_child(add_child(add_child(new(20), new(40)), new(50)), new(60))),
        add_child(add_child(new(30), new(70)), new(80)))

Parent(path) == SubSeq(path, 1, Len(path) - 1)
Last(path) == path[Len(path)]
Pop(s) == SubSeq(s, 1, Len(s) - 1)

\* (slip: the children pushed in index order, the last child on top)
rev_kept(s) == s
\* Iterator::rev over the children
rev(s) == [i \in 1..Len(s) |-> s[Len(s) + 1 - i]]

\* The references to the children of the node at path, in index order.
ChildRefs(t, path) == [i \in 1..Len(NodeAt(t, path).children) |-> path \o <<i>>]

\* InPre::next on a stack of node references (paths into the borrowed tree)
InPre_next(t, next) ==
    IF next = <<>> THEN [ret |-> None, next |-> next]
    ELSE LET current == Last(next)
         IN  [ret |-> Some([path |-> current, value |-> NodeAt(t, current).value]),
              next |-> Pop(next) \o rev(ChildRefs(t, current))]

\* One run of the body of InPost::next on a stack of (reference, next child):
\* `again` says that the body ended in `return self.next()`.
InPost_next(t, next) ==
    IF next = <<>> THEN [ret |-> None, next |-> next, again |-> FALSE]
    ELSE LET parent == Last(next).node
             next_child == Last(next).child
         IN  IF next_child < Len(NodeAt(t, parent).children)
             THEN [ret |-> None, again |-> TRUE,
                   next |-> Append([next EXCEPT ![Len(next)].child = next_child + 1],
                                   [node |-> parent \o <<next_child + 1>>, child |-> 0])]
             ELSE [ret |-> Some([path |-> parent, value |-> NodeAt(t, parent).value]),
                   next |-> Pop(next), again |-> FALSE]

\* An owned Node on the stack of an Owned iterator; path records where the
\* node was in the tree handed to into_traverse().
Owned(path, node) == [path |-> path, node |-> node]

\* The owned children of an entry, in index order: the children still in the
\* node are the last ones of those it had in the tree.
OwnedChildren(t, e) ==
    LET had == Len(NodeAt(t, e.path).children)
        left == Len(e.node.children)
    IN  [i \in 1..left |-> Owned(e.path \o <<had - left + i>>, e.node.children[i])]

\* InPreOwned::next
InPreOwned_next(t, next) ==
    IF next = <<>> THEN [ret |-> None, next |-> next]
    ELSE LET current == Last(next)
         IN  [ret |-> Some([path |-> current.path, value |-> current.node.value]),
              next |-> Pop(next) \o rev(OwnedChildren(t, current))]

\* (slip: the last child taken out)
drain_back(children) ==
    IF children = <<>> THEN [item |-> None, rest |-> children]
    ELSE [item |-> Some(Last(children)), rest |-> Pop(children)]
\* children.is_empty().not().then(|| children.drain(0..1)).and_then(|d| d.next())
drain_front(children) ==
    IF children = <<>> THEN [item |-> None, rest |-> children]
    ELSE [item |-> Some(Head(children)), rest |-> Tail(children)]

\* One run of the body of InPostOwned::next.
InPostOwned_next(t, next) ==
    IF next = <<>> THEN [ret |-> None, next |-> next, again |-> FALSE]
    ELSE LET parent == Last(next)
             d == drain_front(parent.node.children)
             drained == Owned(parent.path, [parent.node EXCEPT !.children = d.rest])
             had == Len(NodeAt(t, parent.path).children)
             left == Len(parent.node.children)
         IN  IF d.item.some
             THEN [ret |-> None, again |-> TRUE,
                   next |-> Pop(next) \o
                            << drained,
                               Owned(parent.path \o <<had - left + 1>>, d.item.value) >>]
             ELSE [ret |-> Some([path |-> parent.path, value |-> parent.node.value,
                                 item |-> parent.node]),
                   next |-> Pop(next), again |-> FALSE]

\* The iterators of the older crate hold Arc<RefCell<Node>> references: an
\* iterator is a chain of frames, frame i + 1 being the `current` of frame i,
\* and a frame is (root, next) with root a reference (a path into the tree).
Frame(root) == [root |-> root, next |-> 0]

\* root.borrow_mut().children_mut().get(index).map(|child| new(child.clone()))
child_iterator(t, root, index) ==
    IF index < Len(NodeAt(t, root).children)
    THEN Some(Frame(root \o <<index + 1>>))
    ELSE None

\* (slip: the child loaded is the one at self.next)
pre_index_skipped(next) == next
\* the index of the child PreOrderMutIterator loads: self.next - 1
pre_index(next) == next - 1

\* PreOrderMutIterator::next on frame i of the chain
RECURSIVE PreOrderMut_next(_, _, _)
PreOrderMut_next(t, frames, i) ==
    LET self == frames[i]
    IN  IF self.next = 0
        THEN [ret |-> Some(self.root), frames |-> [frames EXCEPT ![i].next = 1]]
        ELSE LET child == child_iterator(t, self.root, pre_index(self.next))
                 loaded == IF Len(frames) = i /\ child.some
                           THEN Append(frames, child.value)
                           ELSE frames
             IN  IF Len(loaded) = i THEN [ret |-> None, frames |-> loaded]
                 ELSE LET r == PreOrderMut_next(t, loaded, i + 1)
                      IN  IF r.ret.some THEN r
                          ELSE PreOrderMut_next(t,
                                   Append(SubSeq(frames, 1, i - 1),
                                          [self EXCEPT !.next = self.next + 1]), i)

\* PostOrderMutIterator::next on frame i of the chain
RECURSIVE PostOrderMut_next(_, _, _)
PostOrderMut_next(t, frames, i) ==
    LET self == frames[i]
    IN  IF self.next = children_len(NodeAt(t, self.root))
        THEN [ret |-> Some(self.root),
              frames |-> Append(SubSeq(frames, 1, i - 1),
                                [self EXCEPT !.next = self.next + 1])]
        ELSE LET child == child_iterator(t, self.root, self.next)
                 loaded == IF Len(frames) = i /\ child.some
                           THEN Append(frames, child.value)
                           ELSE frames
             IN  IF Len(loaded) = i THEN [ret |-> None, frames |-> loaded]
                 ELSE LET r == PostOrderMut_next(t, loaded, i + 1)
                      IN  IF r.ret.some THEN r
                          ELSE PostOrderMut_next(t,
                                   Append(SubSeq(frames, 1, i - 1),
                                          [self EXCEPT !.next = self.next + 1]), i)

\* The closure of mutate_on_traversal: a node of value < 3 gets the child
\* Node::new(value + 1).
mutate_on_traversal(node) ==
    IF node.value < GrowLimit
    THEN add_child(node, new(node.value + 1))
    ELSE node

\* ------------------------------------------------------------------------
\* Concurrent fan-out
\* ------------------------------------------------------------------------
\* Every async immersion is one future per node.  A future is created by
\* its parent ("new"), runs up to its join_all(...).await ("awaiting") and
\* completes once all of its children's futures have ("done").  The futures
\* of siblings are polled in no particular order.

Pending == [ready |-> FALSE, out |-> 0]

NewUnit(node) ==
    [st |-> "new", ret |-> 0, slots |-> [i \in 1..Len(node.children) |-> Pending]]

\* The first slot of a join_all that is still empty.
FirstPending(slots) ==
    CHOOSE i \in 1..Len(slots) :
        /\ ~slots[i].ready
        /\ \A j \in 1..(i - 1) : slots[j].ready

\* (slip: the outputs collected in completion order)
join_all_unordered(slots, i, r) ==
    [slots EXCEPT ![FirstPending(slots)] = [ready |-> TRUE, out |-> r]]

\* join_all: the output of the i-th future goes to the i-th place of the
\* collected Vec, whenever that future completes.
join_all(slots, i, r) == [slots EXCEPT ![i] = [ready |-> TRUE, out |-> r]]

\* (slip: the futures of the children spawned before the parent has run)
Created_eager(us, p) == TRUE
\* The future of a node exists once its parent has collected the futures of
\* its children for join_all, which it does right before awaiting them; the
\* future of the root is created by the call itself.
Created(us, p) == p = <<>> \/ us[Parent(p)].st = "awaiting"

Outputs(slots) == [i \in 1..Len(slots) |-> slots[i].out]
\* (slip: the join_all of the children not awaited)
AllReady_any(slots) == TRUE
AllReady(slots) == \A i \in 1..Len(slots) : slots[i].ready

\* The calls whose async immersion runs the visitor before the join_all
\* (preorder, map, cascade) and after it (for_each, postorder, reduce).
\* (slip: the visitor call missing from the preorder immersion)
PreDriven_late == { "map", "cascade" }
PreDriven == { "preorder", "map", "cascade" }
PostDriven == { "for_each", "postorder", "reduce" }

\* The visitor call of a pre-driven immersion on the node at path.
AsyncPreVisit(call, node, base, path) ==
    IF call.name = "preorder" THEN
        LET v == for_each_f(call.handle, node, path)
        IN  [node |-> v.node, ret |-> 0, entry |-> v.entry]
    ELSE IF call.name = "map" THEN map_f(call.handle, call.f, node, path)
    ELSE cascade_f(call.handle, node, base, path)

\* (slip: the joined results not handed on)
AsyncPostVisit_unjoined(call, node, results, path) ==
    IF call.name = "reduce" THEN reduce_f(call.handle, call.f, node, <<>>, path)
    ELSE LET v == for_each_f(call.handle, node, path)
         IN  [node |-> v.node, ret |-> 0, entry |-> v.entry]

\* The visitor call of a post-driven immersion on the node at path.
AsyncPostVisit(call, node, results, path) ==
    IF call.name = "reduce" THEN reduce_f(call.handle, call.f, node, results, path)
    ELSE LET v == for_each_f(call.handle, node, path)
         IN  [node |-> v.node, ret |-> 0, entry |-> v.entry]

\* ------------------------------------------------------------------------
\* State
\* ------------------------------------------------------------------------
VARIABLES
    tree,     \* the Node the caller holds (or handed to an Owned handle)
    tree0,    \* a clone of the tree taken before the call
    owner,    \* "caller" while the caller holds the tree, "consumed" once moved
    op,       \* the call: [name, handle, strategy, f]
    pc,       \* "idle", "running" (a concurrent call in flight), "done"
    log,      \* what the recording visitor has observed, in call order
    out,      \* the Node returned by the call, if it returns one
    result,   \* the scalar returned by the call, if it returns one
    units,    \* the futures of a concurrent call, by node path
    history,  \* the calls made earlier on the same Node: their op and log
    got,      \* what the last Node method returned (a usize or an Option)
    stack     \* the state of the iterator in use, if any

vars ==
    <<tree, tree0, owner, op, pc, log, out, result, units, history, got, stack>>

NoOp ==
    [name |-> "none", handle |-> "none", strategy |-> "none", f |-> "none", base |-> 0]
Call(name, h, strategy, f) ==
    [name |-> name, handle |-> h, strategy |-> strategy, f |-> f, base |-> 0]
CallWith(name, h, strategy, f, base) ==
    [name |-> name, handle |-> h, strategy |-> strategy, f |-> f, base |-> base]

\* The base values handed to cascade and to the pre-order driven calls.
Bases == { 0, 1 }

Init ==
    /\ tree \in Trees
    /\ tree0 = tree
    /\ owner = "caller"
    /\ op = NoOp
    /\ pc = "idle"
    /\ log = <<>>
    /\ out = new(0)
    /\ result = 0
    /\ units = <<>>
    /\ history = <<>>
    /\ got = 0
    /\ stack = <<>>

\* Traverse::for_each, TraverseMut::for_each
ForEach ==
    /\ pc = "idle"
    /\ \E h \in { "Borrowed", "Exclusive" } :
         LET r == for_each_immersion(h, tree, <<>>, <<>>)
         IN  /\ tree' = r.node
             /\ log' = r.log
             /\ op' = Call("for_each", h, "Synchronous", "record")
    /\ pc' = "done"
    /\ UNCHANGED <<tree0, owner, out, result, units, history, got, stack>>

\* TraverseOwned::for_each
OwnedForEach ==
    /\ pc = "idle"
    /\ log' = owned_for_each_immersion(tree, <<>>, <<>>)
    /\ owner' = "consumed"
    /\ op' = Call("for_each", "Owned", "Synchronous", "record")
    /\ pc' = "done"
    /\ UNCHANGED <<tree, tree0, out, result, units, history, got, stack>>

\* Traverse::preorder, TraverseMut::preorder
Preorder ==
    /\ pc = "idle"
    /\ \E h \in { "Borrowed", "Exclusive" } :
         LET r == preorder_immersion(h, tree, <<>>, <<>>)
         IN  /\ tree' = r.node
             /\ log' = r.log
             /\ op' = Call("preorder", h, "Synchronous", "record")
    /\ pc' = "done"
    /\ UNCHANGED <<tree0, owner, out, result, units, history, got, stack>>

\* Traverse::postorder, TraverseMut::postorder
Postorder ==
    /\ pc = "idle"
    /\ \E h \in { "Borrowed", "Exclusive" } :
         LET r == postorder_immersion(h, tree, <<>>, <<>>)
         IN  /\ tree' = r.node
             /\ log' = r.log
             /\ op' = Call("postorder", h, "Synchronous", "record")
    /\ pc' = "done"
    /\ UNCHANGED <<tree0, owner, out, result, units, history, got, stack>>

\* Traverse::map, TraverseMut::map
Map ==
    /\ pc = "idle"
    /\ \E h \in { "Borrowed", "Exclusive" }, f \in MapVisitors :
         LET r == map_immersion(h, f, tree, <<>>, <<>>)
         IN  /\ tree' = r.node
             /\ out' = r.out
             /\ log' = r.log
             /\ op' = Call("map", h, "Synchronous", f)
    /\ pc' = "done"
    /\ UNCHANGED <<tree0, owner, result, units, history, got, stack>>

\* TraverseOwned::map
OwnedMap ==
    /\ pc = "idle"
    /\ \E f \in OwnedMapVisitors :
         LET r == owned_map_immersion(f, tree, <<>>, <<>>)
         IN  /\ out' = r.out
             /\ log' = r.log
             /\ op' = Call("map", "Owned", "Synchronous", f)
    /\ owner' = "consumed"
    /\ pc' = "done"
    /\ UNCHANGED <<tree, tree0, result, units, history, got, stack>>

\* Traverse::reduce, TraverseMut::reduce (and InPost / InPostMut reduce)
Reduce ==
    /\ pc = "idle"
    /\ \E h \in { "Borrowed", "Exclusive" } :
       \E f \in ReduceVisitorsOf(h) :
         LET r == reduce_immersion(h, f, tree, <<>>, <<>>)
         IN  /\ tree' = r.node
             /\ result' = r.ret
             /\ log' = r.log
             /\ op' = Call("reduce", h, "Synchronous", f)
    /\ pc' = "done"
    /\ UNCHANGED <<tree0, owner, out, units, history, got, stack>>

\* Node::reduce_mut of the older crate, a method of &mut Node (that crate has
\* no handles), with mutate_tree
ReduceMut ==
    /\ pc = "idle"
    /\ LET r == reduce_mut(tree, <<>>, <<>>)
       IN  /\ tree' = r.node
           /\ result' = r.ret
           /\ log' = r.log
    /\ op' = Call("reduce_mut", "Node", "Synchronous", "mutate_tree")
    /\ pc' = "done"
    /\ UNCHANGED <<tree0, owner, out, units, history, got, stack>>

\* TraverseOwned::reduce
OwnedReduce ==
    /\ pc = "idle"
    /\ \E f \in ReduceVisitors :
         LET r == owned_reduce_immersion(f, tree, <<>>, <<>>)
         IN  /\ result' = r.ret
             /\ log' = r.log
             /\ op' = Call("reduce", "Owned", "Synchronous", f)
    /\ owner' = "consumed"
    /\ pc' = "done"
    /\ UNCHANGED <<tree, tree0, out, units, history, got, stack>>

\* Traverse::cascade, TraverseMut::cascade (and InPre / InPreMut cascade)
Cascade ==
    /\ pc = "idle"
    /\ \E h \in { "Borrowed", "Exclusive" }, base \in Bases :
         LET r == cascade_immersion(h, tree, base, <<>>, <<>>)
         IN  /\ tree' = r.node
             /\ log' = r.log
             /\ op' = CallWith("cascade", h, "Synchronous", "shift", base)
    /\ pc' = "done"
    /\ UNCHANGED <<tree0, owner, out, result, units, history, got, stack>>

\* TraverseOwned::cascade: TraverseMut::new(&mut self.node).cascade(base, f); self
OwnedCascade ==
    /\ pc = "idle"
    /\ \E base \in Bases :
         LET r == cascade_immersion("Exclusive", tree, base, <<>>, <<>>)
         IN  /\ tree' = r.node
             /\ log' = r.log
             /\ op' = CallWith("cascade", "Owned", "Synchronous", "shift", base)
    /\ owner' = "handle"
    /\ pc' = "done"
    /\ UNCHANGED <<tree0, out, result, units, history, got, stack>>

\* TraverseOwned::take
Take ==
    /\ pc = "done"
    /\ owner = "handle"
    /\ owner' = "caller"
    /\ UNCHANGED <<tree, tree0, op, pc, log, out, result, units, history, got, stack>>

\* InPre::map, InPreMut::map
MapPre ==
    /\ pc = "idle"
    /\ \E h \in { "Borrowed", "Exclusive" }, base \in Bases :
         LET r == map_pre_immersion(h, tree, base, <<>>, <<>>)
         IN  /\ tree' = r.node
             /\ out' = r.out
             /\ log' = r.log
             /\ op' = CallWith("map_pre", h, "Synchronous", "and_odd", base)
    /\ pc' = "done"
    /\ UNCHANGED <<tree0, owner, result, units, history, got, stack>>

\* InPreOwned::map
OwnedMapPre ==
    /\ pc = "idle"
    /\ \E base \in Bases :
         LET r == owned_map_pre_immersion(tree, base, <<>>, <<>>)
         IN  /\ out' = r.out
             /\ log' = r.log
             /\ op' = CallWith("map_pre", "Owned", "Synchronous", "and_odd", base)
    /\ owner' = "consumed"
    /\ pc' = "done"
    /\ UNCHANGED <<tree, tree0, result, units, history, got, stack>>

\* InPost::map, InPostMut::map
MapPost ==
    /\ pc = "idle"
    /\ \E h \in { "Borrowed", "Exclusive" }, f \in MapPostVisitors :
         LET r == map_post_immersion(h, f, tree, <<>>, <<>>)
         IN  /\ tree' = r.node
             /\ out' = r.out
             /\ log' = r.log
             /\ op' = Call("map_post", h, "Synchronous", f)
    /\ pc' = "done"
    /\ UNCHANGED <<tree0, owner, result, units, history, got, stack>>

\* InPostOwned::map
OwnedMapPost ==
    /\ pc = "idle"
    /\ LET r == owned_map_post_immersion(tree, <<>>, <<>>)
       IN  /\ out' = r.out
           /\ log' = r.log
    /\ op' = Call("map_post", "Owned", "Synchronous", "odd")
    /\ owner' = "consumed"
    /\ pc' = "done"
    /\ UNCHANGED <<tree, tree0, result, units, history, got, stack>>

\* PrePost::reduce, PrePostMut::reduce
ReducePrePost ==
    /\ pc = "idle"
    /\ \E h \in { "Borrowed", "Exclusive" }, base \in Bases :
         LET r == reduce_pre_post_immersion(h, tree, base, <<>>, <<>>)
         IN  /\ tree' = r.node
             /\ result' = r.ret
             /\ log' = r.log
             /\ op' = CallWith("reduce_pre_post", h, "Synchronous", "len", base)
    /\ pc' = "done"
    /\ UNCHANGED <<tree0, owner, out, units, history, got, stack>>

\* PrePostOwned::reduce
OwnedReducePrePost ==
    /\ pc = "idle"
    /\ \E base \in Bases :
         LET r == owned_reduce_pre_post_immersion(tree, base, <<>>, <<>>)
         IN  /\ result' = r.ret
             /\ log' = r.log
             /\ op' = CallWith("reduce_pre_post", "Owned", "Synchronous", "count", base)
    /\ owner' = "consumed"
    /\ pc' = "done"
    /\ UNCHANGED <<tree, tree0, out, units, history, got, stack>>

\* PrePost::map, PrePostMut::map
MapPrePost ==
    /\ pc = "idle"
    /\ \E h \in { "Borrowed", "Exclusive" }, f \in MapPostVisitors, base \in Bases :
         LET r == map_pre_post_immersion(h, f, tree, base, <<>>, <<>>)
         IN  /\ tree' = r.node
             /\ out' = r.out
             /\ log' = r.log
             /\ op' = CallWith("map_pre_post", h, "Synchronous", f, base)
    /\ pc' = "done"
    /\ UNCHANGED <<tree0, owner, result, units, history, got, stack>>

\* PrePostOwned::map
OwnedMapPrePost ==
    /\ pc = "idle"
    /\ \E base \in Bases :
         LET r == owned_map_pre_post_immersion(tree, base, <<>>, <<>>)
         IN  /\ out' = r.out
             /\ log' = r.log
             /\ op' = CallWith("map_pre_post", "Owned", "Synchronous", "even", base)
    /\ owner' = "consumed"
    /\ pc' = "done"
    /\ UNCHANGED <<tree, tree0, result, units, history, got, stack>>

\* The async calls of Traverse<Asynchronous> and TraverseMut<Asynchronous>:
\* the root future is created; nothing has run yet.
AsyncStart ==
    /\ pc = "idle"
    /\ \E h \in { "Borrowed", "Exclusive" } :
         \/ \E name \in { "for_each", "preorder", "postorder" } :
                op' = Call(name, h, "Asynchronous", "record")
         \/ \E f \in MapVisitors : op' = Call("map", h, "Asynchronous", f)
         \/ \E f \in ReduceVisitorsOf(h) : op' = Call("reduce", h, "Asynchronous", f)
         \/ \E base \in Bases :
                op' = CallWith("cascade", h, "Asynchronous", "shift", base)
    /\ units' = [p \in Paths(tree) |-> NewUnit(NodeAt(tree, p))]
    /\ pc' = "running"
    /\ UNCHANGED <<tree, tree0, owner, log, out, result, history, got, stack>>

\* A future is polled for the first time: it runs to its join_all(...).await,
\* calling the visitor on the way if the call is pre-driven.
AsyncEnter(p) ==
    /\ pc = "running"
    /\ units[p].st = "new"
    /\ Created(units, p)
    /\ IF op.name \in PreDriven
       THEN LET base == IF p = <<>> THEN op.base ELSE units[Parent(p)].ret
                v == AsyncPreVisit(op, NodeAt(tree, p), base, p)
            IN  /\ tree' = SetNodeAt(tree, p, v.node)
                /\ log' = Append(log, v.entry)
                /\ units' = [units EXCEPT ![p].st = "awaiting", ![p].ret = v.ret]
       ELSE /\ units' = [units EXCEPT ![p].st = "awaiting"]
            /\ UNCHANGED <<tree, log>>
    /\ UNCHANGED <<tree0, owner, op, pc, out, result, history, got, stack>>

\* The join_all of a future is complete: the future runs to its end (calling
\* the visitor if the call is post-driven) and its output is collected by the
\* join_all of its parent, or returned by the call.
AsyncJoin(p) ==
    /\ pc = "running"
    /\ units[p].st = "awaiting"
    /\ AllReady(units[p].slots)
    /\ LET joined == Outputs(units[p].slots)
           v == AsyncPostVisit(op, NodeAt(tree, p), joined, p)
           post == op.name \in PostDriven
           output == IF op.name = "map"
                     THEN with_children(new(units[p].ret), joined)
                     ELSE IF op.name = "reduce" THEN v.ret ELSE 0
           completed == [units EXCEPT ![p].st = "done"]
       IN  /\ tree' = IF post THEN SetNodeAt(tree, p, v.node) ELSE tree
           /\ log' = IF post THEN Append(log, v.entry) ELSE log
           /\ IF p = <<>>
              THEN /\ units' = completed
                   /\ pc' = "done"
                   /\ out' = IF op.name = "map" THEN output ELSE out
                   /\ result' = IF op.name = "reduce" THEN output ELSE result
              ELSE /\ units' = [completed EXCEPT ![Parent(p)].slots =
                                    join_all(@, Last(p), output)]
                   /\ UNCHANGED <<pc, out, result>>
    /\ UNCHANGED <<tree0, owner, op, history, got, stack>>

\* The call has returned and its handle is gone: the caller, holding the
\* Node, is about to make another call on it through a fresh handle
\* (Node::traverse, Node::traverse_mut).
Again ==
    /\ pc = "done"
    /\ owner = "caller"
    /\ Len(history) < MaxCalls - 1
    /\ history' = Append(history, [op |-> op, log |-> log])
    /\ tree0' = tree
    /\ op' = NoOp
    /\ pc' = "idle"
    /\ log' = <<>>
    /\ UNCHANGED <<tree, owner, out, result, units, got, stack>>

\* A call of a method of a node of the tree the caller holds.
Method(name, path, index) ==
    [name |-> name, handle |-> "none", strategy |-> "none", f |-> "none",
     base |-> 0, path |-> path, index |-> index]

\* Node::add_child on some node of the tree.
AddChild ==
    /\ pc = "idle"
    /\ size(tree) < MaxNodes
    /\ \E p \in Paths(tree), v \in Values :
         LET node == NodeAt(tree, p)
         IN  /\ tree' = SetNodeAt(tree, p, add_child(node, new(v)))
             /\ got' = add_child_returned(node, new(v))
             /\ op' = Method("add_child", p, children_len(node))
    /\ tree0' = tree
    /\ UNCHANGED <<owner, pc, log, out, result, units, history, stack>>

\* Node::remove_child on some node of the tree, with an index that is in
\* range or not; a panic ends the program.
RemoveChild ==
    /\ pc = "idle"
    /\ \E p \in Paths(tree) :
         \E index \in 0..(children_len(NodeAt(tree, p)) + 1) :
           LET r == remove_child(NodeAt(tree, p), index)
           IN  /\ op' = Method("remove_child", p, index)
               /\ IF r.panic
                  THEN /\ pc' = "panicked"
                       /\ UNCHANGED <<tree, got>>
                  ELSE /\ tree' = SetNodeAt(tree, p, r.node)
                       /\ got' = r.ret
                       /\ pc' = pc
    /\ tree0' = tree
    /\ UNCHANGED <<owner, log, out, result, units, history, stack>>

\* map_immersion of WithOrder::map run on the tree under either policy (the
\* body of WithOrder::map itself is todo!(), the loop is its nested function).
OrderCall(O) ==
    [name |-> "order_map", handle |-> "Borrowed", strategy |-> "Synchronous",
     f |-> "len", base |-> 0, order |-> O]
OrderMap ==
    /\ pc = "idle"
    /\ \E O \in Orders :
         LET r == order_map_immersion(O, tree, <<>>, <<>>)
         IN  /\ out' = r.out
             /\ log' = r.log
             /\ op' = OrderCall(O)
    /\ pc' = "done"
    /\ UNCHANGED <<tree, tree0, owner, result, units, history, got, stack>>

\* Node::size on some node of the tree.
Size ==
    /\ pc = "idle"
    /\ \E p \in Paths(tree) :
         /\ got' = size(NodeAt(tree, p))
         /\ op' = Method("size", p, 0)
    /\ tree0' = tree
    /\ UNCHANGED <<tree, owner, pc, log, out, result, units, history, stack>>

\* Node::height on some node of the tree.
Height ==
    /\ pc = "idle"
    /\ \E p \in Paths(tree) :
         /\ got' = height(NodeAt(tree, p))
         /\ op' = Method("height", p, 0)
    /\ tree0' = tree
    /\ UNCHANGED <<tree, owner, pc, log, out, result, units, history, stack>>

Next ==
    \/ ForEach
    \/ OwnedForEach
    \/ Preorder
    \/ Postorder
    \/ Map
    \/ OwnedMap
    \/ Reduce
    \/ OwnedReduce
    \/ Cascade
    \/ OwnedCascade
    \/ Take
    \/ MapPre
    \/ OwnedMapPre
    \/ MapPost
    \/ OwnedMapPost
    \/ ReducePrePost
    \/ OwnedReducePrePost
    \/ ReduceMut
    \/ OrderMap
    \/ MapPrePost
    \/ OwnedMapPrePost
    \/ AsyncStart
    \/ \E p \in DOMAIN units : AsyncEnter(p)
    \/ \E p \in DOMAIN units : AsyncJoin(p)

Spec == Init /\ [][Next]_vars

\* A caller that makes several for-each calls, one after the other, on the
\* Node it holds.
NextRepeat ==
    \/ ForEach
    \/ Preorder
    \/ Postorder
    \/ Again

SpecRepeat == Init /\ [][NextRepeat]_vars

\* A caller that builds and prunes the tree with the methods of Node.
NextNode ==
    \/ AddChild
    \/ RemoveChild
    \/ Size
    \/ Height

\* The trees of Init and the tree of test_node_size and test_node_height.
InitNode ==
    /\ tree \in Trees \cup { SizeTree }
    /\ tree0 = tree
    /\ owner = "caller"
    /\ op = NoOp
    /\ pc = "idle"
    /\ log = <<>>
    /\ out = new(0)
    /\ result = 0
    /\ units = <<>>
    /\ history = <<>>
    /\ got = 0
    /\ stack = <<>>

SpecNode == InitNode /\ [][NextNode]_vars

\* ------------------------------------------------------------------------
\* Iteration: an iterator is made from the tree and next() is called on it
\* until it returns None, and up to MaxCalls times more.
\* ------------------------------------------------------------------------
IterCall(kind, h) ==
    [name |-> "iter", handle |-> h, strategy |-> "Synchronous", f |-> "collect",
     base |-> 0, kind |-> kind]

\* What a call of next() that returned ret leaves behind.
Returned(ret) ==
    /\ got' = ret
    /\ log' = IF ret.some THEN Append(log, ret.value) ELSE log
    /\ result' = IF ret.some THEN result ELSE result + 1

CanCallNext(kind) ==
    /\ op.name = "iter"
    /\ op.kind = kind
    /\ pc \in { "iterating", "descending", "exhausted" }
    /\ result < MaxCalls

\* Traverse::pre
TraversePre ==
    /\ pc = "idle"
    /\ stack' = << <<>> >>
    /\ op' = IterCall("InPre", "Borrowed")
    /\ pc' = "iterating"
    /\ UNCHANGED <<tree, tree0, owner, log, out, result, units, history, got>>

\* InPre::next
InPreNext ==
    /\ CanCallNext("InPre")
    /\ LET r == InPre_next(tree, stack)
       IN  /\ stack' = r.next
           /\ Returned(r.ret)
           /\ pc' = IF r.ret.some THEN "iterating" ELSE "exhausted"
    /\ UNCHANGED <<tree, tree0, owner, op, out, units, history>>

\* Traverse::post
TraversePost ==
    /\ pc = "idle"
    /\ stack' = << [node |-> <<>>, child |-> 0] >>
    /\ op' = IterCall("InPost", "Borrowed")
    /\ pc' = "iterating"
    /\ UNCHANGED <<tree, tree0, owner, log, out, result, units, history, got>>

\* InPost::next, one run of its body: after `return self.next()` the call is
\* still going on (pc = "descending") and the next run of the body follows.
InPostNext ==
    /\ CanCallNext("InPost")
    /\ LET r == InPost_next(tree, stack)
       IN  /\ stack' = r.next
           /\ IF r.again
              THEN pc' = "descending" /\ UNCHANGED <<got, log, result>>
              ELSE /\ Returned(r.ret)
                   /\ pc' = IF r.ret.some THEN "iterating" ELSE "exhausted"
    /\ UNCHANGED <<tree, tree0, owner, op, out, units, history>>

\* TraverseOwned::pre
OwnedPre ==
    /\ pc = "idle"
    /\ stack' = << Owned(<<>>, tree) >>
    /\ op' = IterCall("InPreOwned", "Owned")
    /\ owner' = "consumed"
    /\ pc' = "iterating"
    /\ UNCHANGED <<tree, tree0, log, out, result, units, history, got>>

\* InPreOwned::next
InPreOwnedNext ==
    /\ CanCallNext("InPreOwned")
    /\ LET r == InPreOwned_next(tree0, stack)
       IN  /\ stack' = r.next
           /\ Returned(r.ret)
           /\ pc' = IF r.ret.some THEN "iterating" ELSE "exhausted"
    /\ UNCHANGED <<tree, tree0, owner, op, out, units, history>>

\* TraverseOwned::post
OwnedPost ==
    /\ pc = "idle"
    /\ stack' = << Owned(<<>>, tree) >>
    /\ op' = IterCall("InPostOwned", "Owned")
    /\ owner' = "consumed"
    /\ pc' = "iterating"
    /\ UNCHANGED <<tree, tree0, log, out, result, units, history, got>>

\* InPostOwned::next, one run of its body (see InPostNext).
InPostOwnedNext ==
    /\ CanCallNext("InPostOwned")
    /\ LET r == InPostOwned_next(tree0, stack)
       IN  /\ stack' = r.next
           /\ IF r.again
              THEN pc' = "descending" /\ UNCHANGED <<got, log, result>>
              ELSE /\ Returned(r.ret)
                   /\ pc' = IF r.ret.some THEN "iterating" ELSE "exhausted"
    /\ UNCHANGED <<tree, tree0, owner, op, out, units, history>>

\* PreOrderMutIterator::new(root.clone())
PreOrderMutNew ==
    /\ pc = "idle"
    /\ stack' = << Frame(<<>>) >>
    /\ op' = IterCall("PreOrderMut", "Node")
    /\ pc' = "iterating"
    /\ UNCHANGED <<tree, tree0, owner, log, out, result, units, history, got>>

\* The value of the node a reference points to, read when it is yielded.
Yielded(t, ret) ==
    IF ret.some
    THEN Some([path |-> ret.value, value |-> NodeAt(t, ret.value).value])
    ELSE None

\* PreOrderMutIterator::next; the closure of for_each runs on what it yields.
PreOrderMutNext ==
    /\ CanCallNext("PreOrderMut")
    /\ LET r == PreOrderMut_next(tree, stack, 1)
       IN  /\ stack' = r.frames
           /\ Returned(Yielded(tree, r.ret))
           /\ pc' = IF r.ret.some THEN "handling" ELSE "exhausted"
    /\ UNCHANGED <<tree, tree0, owner, op, out, units, history>>

\* The closure of mutate_on_traversal on the node just yielded.
Consume ==
    /\ pc = "handling"
    /\ op.kind = "PreOrderMut"
    /\ tree' = SetNodeAt(tree, got.value.path,
                         mutate_on_traversal(NodeAt(tree, got.value.path)))
    /\ pc' = "iterating"
    /\ UNCHANGED <<tree0, owner, op, log, out, result, units, history, got, stack>>

\* PostOrderMutIterator::new(root), on a fresh tree or on the tree a finished
\* PreOrderMutIterator pass has left (whose yields are kept in history).
PostOrderMutNew ==
    /\ \/ pc = "idle"
       \/ pc = "exhausted" /\ op.kind = "PreOrderMut"
    /\ stack' = << Frame(<<>>) >>
    /\ op' = IterCall("PostOrderMut", "Node")
    /\ history' = IF pc = "idle" THEN <<>> ELSE << [t0 |-> tree0, yields |-> log] >>
    /\ tree0' = tree
    /\ log' = <<>>
    /\ result' = 0
    /\ pc' = "iterating"
    /\ UNCHANGED <<tree, owner, out, units, got>>

\* PostOrderMutIterator::next
PostOrderMutNext ==
    /\ CanCallNext("PostOrderMut")
    /\ LET r == PostOrderMut_next(tree, stack, 1)
       IN  /\ stack' = r.frames
           /\ Returned(Yielded(tree, r.ret))
           /\ pc' = IF r.ret.some THEN "iterating" ELSE "exhausted"
    /\ UNCHANGED <<tree, tree0, owner, op, out, units, history>>

NextIter ==
    \/ TraversePre
    \/ InPreNext
    \/ TraversePost
    \/ InPostNext
    \/ OwnedPre
    \/ InPreOwnedNext
    \/ OwnedPost
    \/ InPostOwnedNext
    \/ PreOrderMutNew
    \/ PreOrderMutNext
    \/ Consume
    \/ PostOrderMutNew
    \/ PostOrderMutNext

\* The trees of Init, the tree of the iterator tests and the single node of
\* mutate_on_traversal.
InitIter ==
    /\ tree \in Trees \cup { WideTree, new(0) }
    /\ tree0 = tree
    /\ owner = "caller"
    /\ op = NoOp
    /\ pc = "idle"
    /\ log = <<>>
    /\ out = new(0)
    /\ result = 0
    /\ units = <<>>
    /\ history = <<>>
    /\ got = 0
    /\ stack = <<>>

SpecIter == InitIter /\ [][NextIter]_vars

\* ------------------------------------------------------------------------
\* Properties
\* ------------------------------------------------------------------------
IsProperPrefix(p, q) == Len(p) < Len(q) /\ SubSeq(q, 1, Len(p)) = p

\* The calls made of the recording visitor on the node at path p.
Visits(p) == { i \in 1..Len(log) : log[i].path = p }
Visited(p) == Visits(p) # {}
Pos(p) == CHOOSE i \in 1..Len(log) : log[i].path = p
Entry(p) == log[Pos(p)]
LoggedValues == [i \in 1..Len(log) |-> log[i].value]
LoggedResults == [i \in 1..Len(log) |-> log[i].ret]

ForEachCalls == { "for_each", "preorder", "postorder" }
Finished(names, strategy) ==
    pc = "done" /\ op.name \in names /\ op.strategy = strategy

\* A node is observed before every node of its subtree.
ParentFirst ==
    \A p \in Paths(tree0), q \in Paths(tree0) :
        IsProperPrefix(p, q) => Pos(p) < Pos(q)
\* A node is observed after every node of its subtree.
ParentLast ==
    \A p \in Paths(tree0), q \in Paths(tree0) :
        IsProperPrefix(p, q) => Pos(q) < Pos(p)
\* The subtree of a child is observed completely before anything of the
\* subtree of a later sibling.
SiblingsInOrder ==
    \A p \in Paths(tree0), q \in Paths(tree0) :
        \A k \in 1..Len(p) :
            ( /\ k <= Len(q)
              /\ SubSeq(p, 1, k - 1) = SubSeq(q, 1, k - 1)
              /\ p[k] < q[k] ) => Pos(p) < Pos(q)

\* C1: one for-each call invokes the visitor exactly once for each node of
\* the tree, size(T)+1 times in all, whatever the handle, the order and the
\* execution strategy; while a concurrent call is in flight no node has been
\* visited twice.
C1_ExactlyOnce ==
    op.name \in ForEachCalls =>
        /\ \A p \in Paths(tree0) : Cardinality(Visits(p)) <= 1
        /\ pc = "done" =>
              /\ Len(log) = size(tree0) + 1
              /\ \A p \in Paths(tree0) : Cardinality(Visits(p)) = 1
              /\ \A i \in 1..Len(log) : log[i].path \in Paths(tree0)

C1_Witness ==
    /\ pc = "done"
    /\ op = Call("for_each", "Exclusive", "Asynchronous", "record")
    /\ tree0 = TestTree
    /\ Len(log) = 5

\* C2: sequential preorder for-each observes a node before every node of its
\* subtree and the subtrees of its children one after another in child-index
\* order; on 10[20[40], 30[50]] it observes 10, 20, 40, 30, 50.
C2_PreorderSequence ==
    Finished({ "preorder" }, "Synchronous") =>
        /\ ParentFirst
        /\ SiblingsInOrder
        /\ (tree0 = TestTree /\ op.handle = "Borrowed") =>
               LoggedValues = <<10, 20, 40, 30, 50>>

C2_Witness ==
    /\ Finished({ "preorder" }, "Synchronous")
    /\ op.handle = "Borrowed"
    /\ tree0 = TestTree
    /\ Len(log) = 5

\* C3: sequential for_each (Traverse, TraverseMut, TraverseOwned) observes a
\* node after every node of its subtree, the subtrees of its children one
\* after another in child-index order; on 10[20[40], 30[50]] it observes
\* 40, 20, 50, 30, 10.
C3_PostorderSequence ==
    Finished({ "for_each", "postorder" }, "Synchronous") =>
        /\ ParentLast
        /\ SiblingsInOrder
        /\ (tree0 = TestTree /\ op.handle \in { "Borrowed", "Owned" }) =>
               LoggedValues = <<40, 20, 50, 30, 10>>

C3_Witness ==
    /\ Finished({ "for_each" }, "Synchronous")
    /\ op.handle = "Owned"
    /\ tree0 = TestTree
    /\ Len(log) = 5

\* The results the visitor returned for the children of the node at p, in
\* child-index order.
ChildResults(p) ==
    [i \in 1..Len(NodeAt(tree0, p).children) |-> Entry(p \o <<i>>).ret]

\* C4: reduce hands the visitor of a node the results of its children, one
\* per child and in child order, each computed before the call on the node,
\* and returns the result of the root; node.value + sum(children) on
\* 10[20[40], 30[50]] gives 150.
C4_Reduce ==
    Finished({ "reduce" }, "Synchronous") =>
        /\ \A p \in Paths(tree0) :
              /\ Cardinality(Visits(p)) = 1
              /\ Entry(p).results = ChildResults(p)
              /\ Entry(p).ret = Combine(op.f, Entry(p).value, ChildResults(p))
              /\ \A i \in 1..Len(NodeAt(tree0, p).children) :
                     Pos(p \o <<i>>) < Pos(p)
        /\ result = Entry(<<>>).ret
        /\ (tree0 = TestTree /\ op.handle \in { "Borrowed", "Owned" } /\ op.f = "sum")
               => result = 150

C4_Witness ==
    /\ Finished({ "reduce" }, "Synchronous")
    /\ op.handle = "Borrowed"
    /\ op.f = "sum"
    /\ tree0 = TestTree
    /\ result = 150

ShiftedTree ==
    add_child(add_child(new(0), add_child(new(10), new(30))),
              add_child(new(10), new(40)))

\* C6: the level-shift cascade on an Exclusive or Owned handle leaves in
\* every node the value handed down to it: base in the root, and in a child
\* what the visitor returned for its parent (the parent's old value plus what
\* the parent received), not what the parent now stores; the Owned handle
\* keeps the tree and take() hands it back.  With base 0, 10[20[40], 30[50]]
\* becomes 0[10[30], 10[40]].
C6_LevelShift ==
    ( /\ Finished({ "cascade" }, "Synchronous")
      /\ op.handle \in { "Exclusive", "Owned" } ) =>
        /\ Paths(tree) = Paths(tree0)
        /\ NodeAt(tree, <<>>).value = op.base
        /\ \A p \in Paths(tree0) \ { <<>> } :
              NodeAt(tree, p).value =
                  NodeAt(tree0, Parent(p)).value + NodeAt(tree, Parent(p)).value
        /\ owner # "consumed"
        /\ (tree0 = TestTree /\ op.base = 0) => tree = ShiftedTree

C6_Witness ==
    /\ Finished({ "cascade" }, "Synchronous")
    /\ op.handle = "Owned"
    /\ owner = "caller"
    /\ op.base = 0
    /\ tree0 = TestTree
    /\ tree = ShiftedTree

RECURSIVE SameShape(_, _)
SameShape(a, b) ==
    /\ Len(a.children) = Len(b.children)
    /\ \A i \in 1..Len(a.children) : SameShape(a.children[i], b.children[i])

MapCalls == { "map", "map_pre", "map_post", "map_pre_post" }

\* C7: whatever the tree and the visitor, every map variant returns a tree
\* with the same number of children as the source at every position.
C7_ShapePreserved ==
    (pc = "done" /\ op.name \in MapCalls) => SameShape(out, tree0)

\* C8: a call on a Borrowed handle leaves the source tree equal to the clone
\* taken before the call, at every moment of the call.
C8_BorrowedUntouched ==
    op.handle = "Borrowed" => tree = tree0

C8_Witness ==
    /\ Finished({ "map" }, "Synchronous")
    /\ op.handle = "Borrowed"
    /\ op.f = "even"
    /\ tree0 = TestTree
    /\ out # tree0
    /\ Len(log) = 5

LogSet(l) == { l[i] : i \in 1..Len(l) }

\* C9: a concurrent map returns the tree the sequential map returns and a
\* concurrent reduce the value the sequential reduce returns, with the same
\* visitor calls made and the same tree left behind, in every interleaving.
C9_ConcurrentEqualsSequential ==
    /\ Finished({ "map" }, "Asynchronous") =>
          LET seq == map_immersion(op.handle, op.f, tree0, <<>>, <<>>)
          IN  /\ out = seq.out
              /\ tree = seq.node
              /\ LogSet(log) = LogSet(seq.log)
    /\ Finished({ "reduce" }, "Asynchronous") =>
          LET seq == reduce_immersion(op.handle, op.f, tree0, <<>>, <<>>)
          IN  /\ result = seq.ret
              /\ tree = seq.node
              /\ LogSet(log) = LogSet(seq.log)

C9_Witness ==
    /\ Finished({ "reduce" }, "Asynchronous")
    /\ op.f = "weighted"
    /\ tree0 = TestTree
    /\ log # reduce_immersion(op.handle, op.f, tree0, <<>>, <<>>).log

\* C10: under concurrent fan-out the results handed to a reduce visitor are
\* the results of the node's children, one per child and in child-index
\* order, and every node of the tree returned by map has the outputs of its
\* children in child-index order, whatever the order of completion.
C10_ChildIndexOrder ==
    /\ (op.name = "reduce" /\ op.strategy = "Asynchronous") =>
          \A p \in Paths(tree0) :
              Visited(p) => Entry(p).results = ChildResults(p)
    /\ Finished({ "map" }, "Asynchronous") =>
          /\ Paths(out) = Paths(tree0)
          /\ \A p \in Paths(tree0) : NodeAt(out, p).value = Entry(p).ret

C10_Witness ==
    /\ Finished({ "reduce" }, "Asynchronous")
    /\ op.f = "weighted"
    /\ tree0 = TestTree
    /\ Pos(<<2>>) < Pos(<<1, 1>>)

\* C11: concurrent map calls the visitor on a node only after the futures of
\* all of its children have been joined, so that every node is observed
\* after its descendants and the root last; with the incrementing visitor on
\* an Exclusive handle of 10[20[40], 30[50]] the last value recorded is 11.
C11_MapRootLast ==
    Finished({ "map" }, "Asynchronous") =>
        /\ ParentLast
        /\ Pos(<<>>) = Len(log)
        /\ (tree0 = TestTree /\ op.handle = "Exclusive") => log[Len(log)].value = 11

\* What the sequential call of the same name observes on the same tree.
SequentialLog ==
    IF op.name = "preorder" THEN preorder_immersion(op.handle, tree0, <<>>, <<>>).log
    ELSE IF op.name = "postorder"
         THEN postorder_immersion(op.handle, tree0, <<>>, <<>>).log
         ELSE for_each_immersion(op.handle, tree0, <<>>, <<>>).log

SequentialPos(p) ==
    CHOOSE i \in 1..Len(SequentialLog) : SequentialLog[i].path = p

Comparable(p, q) == IsProperPrefix(p, q) \/ IsProperPrefix(q, p)

C13_AncestorOrder ==
    op.strategy = "Asynchronous" =>
        /\ op.name \in { "preorder", "cascade" } =>
              /\ \A q \in Paths(tree0) : Visited(q) =>
                     \A p \in Paths(tree0) : IsProperPrefix(p, q) =>
                         Visited(p) /\ Pos(p) < Pos(q)
              /\ pc = "done" => Pos(<<>>) = 1
        /\ op.name \in { "for_each", "postorder", "reduce" } =>
              /\ \A p \in Paths(tree0) : Visited(p) =>
                     \A q \in Paths(tree0) : IsProperPrefix(p, q) =>
                         Visited(q) /\ Pos(q) < Pos(p)
              /\ pc = "done" => Pos(<<>>) = Len(log)

C13_Witness ==
    /\ Finished({ "postorder" }, "Asynchronous")
    /\ tree0 = TestTree
    /\ Len(log) = 5
    /\ Pos(<<2, 1>>) < Pos(<<1>>)

\* A future that exists and has not completed.
InFlight(us, q) == us[q].st = "awaiting" \/ (us[q].st = "new" /\ Created(us, q))

IsPrefix(p, q) == p = q \/ IsProperPrefix(p, q)

\* C14: in a concurrent call on an Exclusive handle, whenever the visitor is
\* called on a node no future working on a descendant of that node is in
\* flight, and the call changes nothing outside the subtree of that node:
\* the futures of siblings, which are in flight together, never touch the
\* same node.
C14_NoOverlap ==
    [][ ( /\ op.handle = "Exclusive"
          /\ op.strategy = "Asynchronous"
          /\ pc = "running"
          /\ log' # log ) =>
            LET p == log'[Len(log')].path
            IN  /\ \A q \in DOMAIN units : IsProperPrefix(p, q) => ~InFlight(units, q)
                /\ \A q \in Paths(tree) : ~IsPrefix(p, q) =>
                       /\ q \in Paths(tree')
                       /\ NodeAt(tree', q).value = NodeAt(tree, q).value
                       /\ children_len(NodeAt(tree', q)) = children_len(NodeAt(tree, q))
      ]_vars

C14_Witness ==
    /\ pc = "running"
    /\ op.handle = "Exclusive"
    /\ tree0 = TestTree
    /\ InFlight(units, <<1>>)
    /\ InFlight(units, <<2>>)
    /\ units[<<1>>].st = "awaiting"
    /\ units[<<2>>].st = "awaiting"
    /\ NodeAt(tree, <<1>>).value # 20
    /\ NodeAt(tree, <<2>>).value # 30

\* C15: map on a Borrowed handle and map on an Owned handle of an equal tree
\* return equal trees, for the closures that can be written for both (over
\* the value and the original children), and so do the pre-order driven maps.
C15_OwnershipEquivalence ==
    /\ (Finished({ "map" }, "Synchronous") /\ op.handle = "Borrowed") =>
           out = owned_map_immersion(op.f, tree0, <<>>, <<>>).out
    /\ (Finished({ "map" }, "Synchronous") /\ op.handle = "Owned") =>
           out = map_immersion("Borrowed", op.f, tree0, <<>>, <<>>).out
    /\ (Finished({ "map_pre" }, "Synchronous") /\ op.handle = "Borrowed") =>
           out = owned_map_pre_immersion(tree0, op.base, <<>>, <<>>).out
    /\ (Finished({ "map_pre" }, "Synchronous") /\ op.handle = "Owned") =>
           out = map_pre_immersion("Borrowed", tree0, op.base, <<>>, <<>>).out

C15_Witness ==
    /\ Finished({ "map" }, "Synchronous")
    /\ op.handle = "Owned"
    /\ op.f = "len"
    /\ tree0 = TestTree
    /\ out.value = 12
    /\ out # tree0

ChildrenBefore == NodeAt(tree0, op.path).children
ChildrenAfter == NodeAt(tree, op.path).children

\* C18: remove_child with an index that is not below children_len() returns
\* None, leaves the children as they were, and does not fail.
C18_RemoveOutOfRange ==
    (op.name = "remove_child" /\ op.index >= Len(ChildrenBefore)) =>
        /\ pc # "panicked"
        /\ got = None
        /\ tree = tree0

\* C19: remove_child with an index below children_len() returns the child
\* that was at that index, leaves one child less, the others in their
\* relative order, and the node no longer equal to a clone taken before.
C19_RemoveInRange ==
    (op.name = "remove_child" /\ op.index < Len(ChildrenBefore)) =>
        /\ pc # "panicked"
        /\ got = Some(ChildrenBefore[op.index + 1])
        /\ Len(ChildrenAfter) = Len(ChildrenBefore) - 1
        /\ \A i \in 1..Len(ChildrenAfter) :
               ChildrenAfter[i] = ChildrenBefore[IF i <= op.index THEN i ELSE i + 1]
        /\ tree # tree0

C19_Witness ==
    /\ op.name = "remove_child"
    /\ op.path = <<>>
    /\ op.index = 0
    /\ Len(ChildrenBefore) = 3
    /\ ChildrenBefore[2] # ChildrenBefore[3]
    /\ got = Some(ChildrenBefore[1])

Receiver == NodeAt(tree, op.path)

\* C21: size() returns the number of descendants of the node, one less than
\* the number of nodes of its subtree, and 0 exactly when the node has no
\* children: 5 for 10[20[40], 30[50, 60]] and 4 for 10[20[40], 30[50]].
C21_Size ==
    op.name = "size" =>
        /\ got = Cardinality(Paths(Receiver)) - 1
        /\ got = 0 <=> Receiver.children = <<>>
        /\ Receiver = SizeTree => got = 5
        /\ Receiver = TestTree => got = 4

C21_Witness ==
    /\ op.name = "size"
    /\ op.path = <<>>
    /\ tree = SizeTree
    /\ got = 5

\* C22: height() returns the number of nodes of the longest branch below and
\* including the node: 1 exactly when the node has no children, otherwise 1
\* plus the greatest height among its children; 3 for 10[20[40], 30[50, 60]].
C22_Height ==
    op.name = "height" =>
        /\ \A p \in Paths(Receiver) : Len(p) + 1 <= got
        /\ \E p \in Paths(Receiver) : Len(p) + 1 = got
        /\ got = 1 <=> Receiver.children = <<>>
        /\ Receiver.children # <<>> =>
               /\ \A i \in 1..Len(Receiver.children) :
                      height(Receiver.children[i]) + 1 <= got
               /\ \E i \in 1..Len(Receiver.children) :
                      height(Receiver.children[i]) + 1 = got
        /\ Receiver = SizeTree => got = 3

C22_Witness ==
    /\ op.name = "height"
    /\ op.path = <<>>
    /\ tree = SizeTree
    /\ got = 3

\* Every node of the source was handed to the visitor exactly once.
EachOnce ==
    /\ Len(log) = Cardinality(Paths(tree0))
    /\ \A p \in Paths(tree0) : Cardinality(Visits(p)) = 1

\* C23: map reached through pre() calls f on the root with the caller's base
\* and on every other node with the result computed for its parent, which is
\* the value of the parent's output node; a parent comes before its children,
\* children in child-index order, and every result is the value of the
\* output node at the same position.
C23_MapPre ==
    Finished({ "map_pre" }, "Synchronous") =>
        /\ EachOnce
        /\ Entry(<<>>).base = op.base
        /\ \A p \in Paths(tree0) \ { <<>> } :
               /\ Entry(p).base = Entry(Parent(p)).ret
               /\ Entry(p).base = NodeAt(out, Parent(p)).value
        /\ ParentFirst
        /\ SiblingsInOrder
        /\ Paths(out) = Paths(tree0)
        /\ \A p \in Paths(tree0) : NodeAt(out, p).value = Entry(p).ret

C23_Witness ==
    /\ Finished({ "map_pre" }, "Synchronous")
    /\ op.base = 1
    /\ \E p \in Paths(tree0) :
         /\ Len(p) = 2
         /\ Entry(p).base = 1
         /\ Entry(p).ret = 0
         /\ NodeAt(out, p).value = 0

\* The output node built for the node at path p, read from the call on p.
BuiltFor(p) ==
    [value |-> Entry(p).ret,
     children |-> IF op.f = "clear" THEN <<>> ELSE Entry(p).children]

\* C24: map reached through post() calls f on a node after all of its
\* children were mapped and hands it the output nodes built for them, one
\* per child and in child-index order; the result of f is the value of the
\* output node of the node.
C24_MapPost ==
    Finished({ "map_post" }, "Synchronous") =>
        /\ EachOnce
        /\ ParentLast
        /\ SiblingsInOrder
        /\ \A p \in Paths(tree0) :
               /\ Len(Entry(p).children) = Len(NodeAt(tree0, p).children)
               /\ \A i \in 1..Len(Entry(p).children) :
                      Entry(p).children[i] = BuiltFor(p \o <<i>>)
        /\ out.value = Entry(<<>>).ret
        /\ \A p \in Paths(out) : NodeAt(out, p).value = Entry(p).ret

C24_Witness ==
    /\ Finished({ "map_post" }, "Synchronous")
    /\ op.f = "odd"
    /\ tree0 = TestTree
    /\ Len(Entry(<<>>).children) = 2
    /\ Entry(<<>>).children[2] = NodeAt(out, <<2>>)
    /\ Len(Entry(<<>>).children[1].children) = 1

\* The call of the pre closure and of the post closure on the node at path p.
PreCalls(p) == { i \in 1..Len(log) : log[i].kind = "pre" /\ log[i].path = p }
PostCalls(p) == { i \in 1..Len(log) : log[i].kind = "post" /\ log[i].path = p }
PrePos(p) == CHOOSE i \in PreCalls(p) : TRUE
PostPos(p) == CHOOSE i \in PostCalls(p) : TRUE
RECURSIVE PostResults(_)
PostResults(l) ==
    IF l = <<>> THEN <<>>
    ELSE IF Head(l).kind = "post" THEN <<Head(l).ret>> \o PostResults(Tail(l))
    ELSE PostResults(Tail(l))

\* C29: in post().with_pre(pre).reduce(base, post), pre is called on a node
\* before any of its descendants, with the value pre returned for its parent
\* (the caller's base at the root); post is called on a node after post was
\* called on all of its children, with the value pre returned for that node
\* and the post results of its children in child-index order; with
\* pre = value + base and post = value + children.len() + base on
\* 10[20[40], 30[50]] and base 0 the post results are 110, 51, 140, 71, 22.
C29_ReducePrePost ==
    Finished({ "reduce_pre_post" }, "Synchronous") =>
        /\ Len(log) = 2 * Cardinality(Paths(tree0))
        /\ \A p \in Paths(tree0) :
               /\ Cardinality(PreCalls(p)) = 1
               /\ Cardinality(PostCalls(p)) = 1
               /\ log[PrePos(p)].base =
                      IF p = <<>> THEN op.base ELSE log[PrePos(Parent(p))].ret
               /\ log[PostPos(p)].base = log[PrePos(p)].ret
               /\ log[PostPos(p)].results =
                      [i \in 1..Len(NodeAt(tree0, p).children) |->
                          log[PostPos(p \o <<i>>)].ret]
               /\ \A i \in 1..Len(NodeAt(tree0, p).children) :
                      PostPos(p \o <<i>>) < PostPos(p)
               /\ \A q \in Paths(tree0) :
                      IsProperPrefix(p, q) =>
                          PrePos(p) < PrePos(q) /\ PrePos(p) < PostPos(q)
        /\ result = log[PostPos(<<>>)].ret
        /\ (tree0 = TestTree /\ op.handle = "Borrowed" /\ op.base = 0) =>
               PostResults(log) = <<110, 51, 140, 71, 22>>

C29_Witness ==
    /\ Finished({ "reduce_pre_post" }, "Synchronous")
    /\ tree0 = TestTree
    /\ op.handle = "Borrowed"
    /\ op.base = 0
    /\ PostResults(log) = <<110, 51, 140, 71, 22>>
    /\ result = 22

\* The steps of the loop on the node at path p, by kind, in log order.
Steps(kind, p) == { i \in 1..Len(log) : log[i].kind = kind /\ log[i].path = p }
Evaluations(p) == Steps("evaluate", p) \cup Steps("fallback", p)

Appended == { p \in Paths(tree0) : Entry(p).ret % 2 = 0 }

\* C26: reduce_mut lets the visitor append a child to the node it is given:
\* every node of the tree as it was when the pass began is visited exactly
\* once, children before their parent; the appended nodes are not visited in
\* the pass and are in the tree afterwards; on 0[1, 2[3]] with mutate_tree
\* the later preorder listing is 0, 1, 2, 2, 3, 4, 10.
C26_ReduceMut ==
    Finished({ "reduce_mut" }, "Synchronous") =>
        /\ EachOnce
        /\ ParentLast
        /\ \A i \in 1..Len(log) : log[i].path \in Paths(tree0)
        /\ \A p \in Paths(tree0) :
               LET before == NodeAt(tree0, p).children
                   after == NodeAt(tree, p).children
               IN  /\ NodeAt(tree, p).value = NodeAt(tree0, p).value
                   /\ Entry(p).results = ChildResults(p)
                   /\ IF p \in Appended
                      THEN /\ Len(after) = Len(before) + 1
                           /\ after[Len(after)] = new(Entry(p).ret)
                      ELSE Len(after) = Len(before)
        /\ Cardinality(Paths(tree)) =
               Cardinality(Paths(tree0)) + Cardinality(Appended)
        /\ tree0 = InitTree => reduce_pre_order(tree) = <<0, 1, 2, 2, 3, 4, 10>>

C26_Witness ==
    /\ Finished({ "reduce_mut" }, "Synchronous")
    /\ tree0 = InitTree
    /\ Appended = { <<>>, <<1>>, <<2, 1>> }
    /\ reduce_pre_order(tree) = <<0, 1, 2, 2, 3, 4, 10>>
    /\ Len(log) = 4

\* What an iteration has yielded so far, as (path, value) pairs, and what the
\* recursive traversal of the same order lists on the tree.
Listing(l) == [i \in 1..Len(l) |-> [path |-> l[i].path, value |-> l[i].value]]
Iterating(kinds) == op.name = "iter" /\ op.kind \in kinds
RecursiveListing(t) ==
    IF op.kind \in { "InPre", "InPreOwned", "PreOrderMut" }
    THEN preorder_immersion("Borrowed", t, <<>>, <<>>).log
    ELSE postorder_immersion("Borrowed", t, <<>>, <<>>).log
IsPrefixOf(a, b) == Len(a) <= Len(b) /\ SubSeq(b, 1, Len(a)) = a

StackIterators == { "InPre", "InPost", "InPreOwned", "InPostOwned" }

\* C28: the iterators of pre() and post() on Borrowed and Owned handles yield
\* every node of the tree exactly once, in the order of the recursive
\* preorder, respectively postorder, traversal, and return None from then on;
\* on 10[20[40, 50, 60], 30[70, 80]] pre() yields 10, 20, 40, 50, 60, 30, 70,
\* 80 and post() yields 40, 50, 60, 20, 70, 80, 30, 10.
C28_StackIterators ==
    Iterating(StackIterators) =>
        /\ IsPrefixOf(Listing(log), RecursiveListing(tree0))
        /\ (pc # "exhausted" /\ log # <<>>) => got = Some(log[Len(log)])
        /\ pc = "exhausted" =>
               /\ got = None
               /\ Listing(log) = RecursiveListing(tree0)
               /\ Len(log) = Cardinality(Paths(tree0))
               /\ stack = <<>>
        /\ (pc = "exhausted" /\ tree0 = WideTree) =>
               LoggedValues = IF op.kind \in { "InPre", "InPreOwned" }
                              THEN <<10, 20, 40, 50, 60, 30, 70, 80>>
                              ELSE <<40, 50, 60, 20, 70, 80, 30, 10>>

C28_Witness ==
    /\ Iterating({ "InPost" })
    /\ tree0 = WideTree
    /\ pc = "exhausted"
    /\ result = MaxCalls
    /\ LoggedValues = <<40, 50, 60, 20, 70, 80, 30, 10>>

\* The number of children already moved out of the node of a stack entry.
Taken(e) == Len(NodeAt(tree0, e.path).children) - Len(e.node.children)
OnStack(q) == \E i \in 1..Len(stack) : stack[i].path = q
\* q is in a subtree that is still inside the node of some stack entry.
BelowStack(q) ==
    \E i \in 1..Len(stack) :
        /\ IsProperPrefix(stack[i].path, q)
        /\ q[Len(stack[i].path) + 1] > Taken(stack[i])
Count(b) == IF b THEN 1 ELSE 0

\* C30: every Node yielded by InPostOwned has an empty child list: its
\* children were moved out of it, first child first, and each of them was
\* yielded before it; at every step the stack holds the path from the root to
\* the node being processed, and every node of the original tree is on the
\* stack, below a node of the stack, or already yielded.
C30_OwnedPostStack ==
    Iterating({ "InPostOwned" }) =>
        /\ \A i \in 1..Len(log) :
               /\ log[i].item = new(NodeAt(tree0, log[i].path).value)
               /\ \A q \in Paths(tree0) :
                      IsProperPrefix(log[i].path, q) => Visited(q) /\ Pos(q) < i
               /\ \A j \in 1..Len(log) :
                      ( /\ Parent(log[i].path) = Parent(log[j].path)
                        /\ log[i].path # <<>>
                        /\ log[j].path # <<>>
                        /\ Last(log[i].path) < Last(log[j].path) ) => i < j
        /\ \A i \in 1..Len(stack) :
               LET e == stack[i]
                   had == NodeAt(tree0, e.path).children
               IN  /\ Len(e.path) = i - 1
                   /\ i > 1 => Parent(e.path) = stack[i - 1].path
                   /\ i > 1 => Last(e.path) = Taken(stack[i - 1])
                   /\ e.node.value = NodeAt(tree0, e.path).value
                   /\ e.node.children = SubSeq(had, Taken(e) + 1, Len(had))
                   /\ \A c \in 1..Taken(e) :
                          Visited(e.path \o <<c>>) \/ OnStack(e.path \o <<c>>)
        /\ \A q \in Paths(tree0) :
               Count(Visited(q)) + Count(OnStack(q)) + Count(BelowStack(q)) = 1

C30_Witness ==
    /\ Iterating({ "InPostOwned" })
    /\ tree0 = WideTree
    /\ pc = "descending"
    /\ Len(stack) = 3
    /\ stack[3].path = <<2, 1>>
    /\ Visited(<<1>>)
    /\ Entry(<<1>>).item = new(20)
    /\ BelowStack(<<2, 2>>)

\* The paths an iteration has yielded.
LoggedPaths == { log[i].path : i \in 1..Len(log) }
\* The nodes the consumer has handled, and the child it appended to one.
Handled ==
    IF pc = "handling" THEN LoggedPaths \ { log[Len(log)].path } ELSE LoggedPaths
AppendedTo(p) == p \o <<Len(NodeAt(tree, p).children)>>
Grows(p) == NodeAt(tree, p).value < GrowLimit
RECURSIVE Chain(_, _)
Chain(from, to) ==
    IF from = to THEN new(to) ELSE add_child(new(from), Chain(from + 1, to))

\* C27: PreOrderMutIterator yields a node before its children and reads the
\* child list of a node only after it has yielded the node, so a child the
\* consumer appends to the node it handles is yielded later in the same
\* iteration; from the single node 0, with a consumer that appends value + 1
\* to every yielded node of value < 3, the iteration yields 0, 1, 2, 3 and
\* ends, and PostOrderMutIterator on the tree it leaves yields 3, 2, 1, 0.
C27_MutIterators ==
    /\ Iterating({ "PreOrderMut" }) =>
          /\ \A i \in 1..Len(log), j \in 1..Len(log) :
                 /\ IsProperPrefix(log[i].path, log[j].path) => i < j
                 /\ log[i].path = log[j].path => i = j
          /\ \A i \in 1..Len(stack) :
                 /\ i < Len(stack) => stack[i].next >= 1
                 /\ stack[i].next >= 1 <=> stack[i].root \in LoggedPaths
          /\ LoggedPaths \subseteq Paths(tree)
          /\ Paths(tree0) \subseteq Paths(tree)
          /\ \A p \in Handled :
                 Grows(p) =>
                     /\ AppendedTo(p) \in Paths(tree) \ Paths(tree0)
                     /\ NodeAt(tree, AppendedTo(p)).value = NodeAt(tree, p).value + 1
          /\ pc = "exhausted" =>
                 /\ LoggedPaths = Paths(tree)
                 /\ Handled = LoggedPaths
                 /\ Listing(log) = RecursiveListing(tree)
                 /\ \A p \in Paths(tree) :
                        Grows(p) => Pos(p) < Pos(AppendedTo(p))
          /\ (pc = "exhausted" /\ tree0 = new(0)) =>
                 /\ LoggedValues = <<0, 1, 2, 3>>
                 /\ tree = Chain(0, 3)
    /\ (Iterating({ "PostOrderMut" }) /\ pc = "exhausted") =>
          /\ Listing(log) = RecursiveListing(tree0)
          /\ tree0 = Chain(0, 3) => LoggedValues = <<3, 2, 1, 0>>

C27_Witness ==
    /\ Iterating({ "PostOrderMut" })
    /\ pc = "exhausted"
    /\ history # <<>>
    /\ history[1].t0 = new(0)
    /\ [i \in 1..Len(history[1].yields) |-> history[1].yields[i].value] = <<0, 1, 2, 3>>
    /\ tree = Chain(0, 3)
    /\ LoggedValues = <<3, 2, 1, 0>>

====
